---- MODULE Spec2Model ----
(***************************************************************************)
(* Recitation alignment engine of Hafez                                    *)
(* (src/src/services/advancedRecitationMatcher.ts).                        *)
(*                                                                         *)
(* A text is a sequence of characters; a character is written as a short   *)
(* ASCII name of its code point ("alif" is U+0627, "fatha" is U+064E,      *)
(* "sp" is U+0020, "X" and "x" are Latin letters).  Numbers that the code  *)
(* holds as doubles are held exactly: a score is a reduced fraction        *)
(* <<num, den>>, and the confidence threshold, which the code only ever    *)
(* sets to 0.7 or lowers by 0.1 down to 0.5, is held in tenths.            *)
(***************************************************************************)
EXTENDS Integers, Sequences, FiniteSets, TLC

\* ------------------------------------------------------------------------
\* Bounds of the model
\* ------------------------------------------------------------------------

\* processAudioChunk is not explored once sessionHistory holds this many matches
MaxHistory == 2

\* processAudioChunk is not explored once consecutiveFailures reached this value
MaxFailures == 5

\* longest word list handed to scoreWindow on its own
MaxWords == 2

\* longest text handed to normalizeArabicText on its own
MaxText == 3

\* number of audio chunks the recorder delivers
MaxChunks == 3

\* longest word handed to arabicWordMatch on its own
MaxLetters == 7

\* longest word list handed to longestCommonSubsequence on its own
MaxLcsWords == 2

\* ------------------------------------------------------------------------
\* Characters
\* ------------------------------------------------------------------------

\* U+064B .. U+0652, the range removed by normalizeArabicText
Diacritics ==
    {"fathatan", "dammatan", "kasratan", "fatha", "damma", "kasra", "shadda", "sukun"}

\* characters matched by \s
Whitespace == {"sp", "tab", "nl"}

Min(a, b) == IF a < b THEN a ELSE b

Max(a, b) == IF a > b THEN a ELSE b

\* ------------------------------------------------------------------------
\* Fractions (the code's doubles, held exactly)
\* ------------------------------------------------------------------------

RECURSIVE Gcd(_, _)
Gcd(a, b) == IF b = 0 THEN a ELSE Gcd(b, a % b)

\* the fraction n/d (n >= 0, d > 0) in lowest terms
Frac(n, d) == LET g == Gcd(n, d) IN <<n \div g, d \div g>>

Zero == Frac(0, 1)

One == Frac(1, 1)

FracAdd(x, y) == Frac(x[1] * y[2] + y[1] * x[2], x[2] * y[2])

\* x scaled by the fraction n/d
FracScale(n, d, x) == Frac(n * x[1], d * x[2])

FracGeq(x, y) == x[1] * y[2] >= y[1] * x[2]

FracGt(x, y) == x[1] * y[2] > y[1] * x[2]

\* ------------------------------------------------------------------------
\* String primitives of the runtime
\* ------------------------------------------------------------------------

\* String.prototype.replace(/<one of from>/g, to) on single characters
ReplaceChars(text, from, to) ==
    [k \in 1..Len(text) |-> IF text[k] \in from THEN to ELSE text[k]]

\* String.prototype.replace(/[...]/g, '')
RemoveChars(text, chars) == SelectSeq(text, LAMBDA c : c \notin chars)

\* String.prototype.replace(/\s+/g, ' '): every run of whitespace becomes one space
RECURSIVE CollapseFrom(_, _, _)
CollapseFrom(text, k, acc) ==
    IF k > Len(text) THEN acc
    ELSE IF text[k] \in Whitespace
         THEN IF k > 1 /\ text[k - 1] \in Whitespace
              THEN CollapseFrom(text, k + 1, acc)
              ELSE CollapseFrom(text, k + 1, Append(acc, "sp"))
         ELSE CollapseFrom(text, k + 1, Append(acc, text[k]))

CollapseSpaces(text) == CollapseFrom(text, 1, <<>>)

\* String.prototype.trim
RECURSIVE TrimLeft(_)
TrimLeft(text) ==
    IF text # <<>> /\ Head(text) \in Whitespace THEN TrimLeft(Tail(text)) ELSE text

RECURSIVE TrimRight(_)
TrimRight(text) ==
    IF text # <<>> /\ text[Len(text)] \in Whitespace
    THEN TrimRight(SubSeq(text, 1, Len(text) - 1))
    ELSE text

Trim(text) == TrimRight(TrimLeft(text))

\* String.prototype.toLowerCase on the characters of the model
LowerChar(c) ==
    CASE c = "X" -> "x"
      [] c = "Y" -> "y"
      [] OTHER -> c

ToLowerCase(text) == [k \in 1..Len(text) |-> LowerChar(text[k])]

\* String.prototype.split(/\s+/): the pieces between runs of whitespace, the
\* empty piece before a leading run and after a trailing run included
RECURSIVE SplitFrom(_, _, _, _)
SplitFrom(text, k, piece, acc) ==
    IF k > Len(text) THEN Append(acc, piece)
    ELSE IF text[k] \in Whitespace
         THEN IF k > 1 /\ text[k - 1] \in Whitespace
              THEN SplitFrom(text, k + 1, piece, acc)
              ELSE SplitFrom(text, k + 1, <<>>, Append(acc, piece))
         ELSE SplitFrom(text, k + 1, Append(piece, text[k]), acc)

SplitWhitespace(text) == SplitFrom(text, 1, <<>>, <<>>)

\* Array.prototype.join(' ')
RECURSIVE Join(_)
Join(words) ==
    IF words = <<>> THEN <<>>
    ELSE IF Len(words) = 1 THEN words[1]
    ELSE words[1] \o <<"sp">> \o Join(Tail(words))

\* ------------------------------------------------------------------------
\* Text Normalizer
\* ------------------------------------------------------------------------

\* a variant that removes the diacritics last
normalizeArabicTextMarksLast(text) ==
    LET alif    == ReplaceChars(text,
                                {"alif_hamza_below", "alif_hamza_above", "alif_madda"},
                                "alif")
        ha      == ReplaceChars(alif, {"ta_marbuta"}, "ha")
        ya      == ReplaceChars(ha, {"ya"}, "alif_maqsura")
        kaf     == ReplaceChars(ya, {"keheh"}, "kaf")
    IN  RemoveChars(ToLowerCase(Trim(CollapseSpaces(kaf))), Diacritics)

normalizeArabicText(text) ==
    LET noMarks == RemoveChars(text, Diacritics)
        alif    == ReplaceChars(noMarks,
                                {"alif_hamza_below", "alif_hamza_above", "alif_madda"},
                                "alif")
        ha      == ReplaceChars(alif, {"ta_marbuta"}, "ha")
        ya      == ReplaceChars(ha, {"ya"}, "alif_maqsura")
        kaf     == ReplaceChars(ya, {"keheh"}, "kaf")
    IN  ToLowerCase(Trim(CollapseSpaces(kaf)))

\* normalizedText.split(/\s+/).filter(w => w.length > 0)
WordsOf(normalizedText) ==
    SelectSeq(SplitWhitespace(normalizedText), LAMBDA w : Len(w) > 0)

\* ------------------------------------------------------------------------
\* Similarity Scorer
\* ------------------------------------------------------------------------

\* one row of the matrix of levenshteinDistance: row i (for character ch of
\* str2) from row i - 1; a row holds columns 0..Len(str1) at indices 1..Len(str1)+1
RECURSIVE LevRowFrom(_, _, _, _)
LevRowFrom(prev, ch, str1, row) ==
    LET j == Len(row)
    IN  IF j > Len(str1) THEN row
        ELSE LevRowFrom(prev, ch, str1,
                 Append(row,
                        IF ch = str1[j]
                        THEN prev[j]
                        ELSE Min(prev[j] + 1, Min(row[j] + 1, prev[j + 1] + 1))))

\* the rows 0..Len(str2) of the matrix, at indices 1..Len(str2)+1
RECURSIVE LevMatrix(_, _, _)
LevMatrix(str1, str2, matrix) ==
    LET i == Len(matrix)
    IN  IF i > Len(str2) THEN matrix
        ELSE LevMatrix(str1, str2,
                 Append(matrix, LevRowFrom(matrix[i], str2[i], str1, <<i>>)))

\* a variant without the substitution: a changed character costs a deletion
\* and an insertion
RECURSIVE LevRowNoSubstitution(_, _, _, _)
LevRowNoSubstitution(prev, ch, str1, row) ==
    LET j == Len(row)
    IN  IF j > Len(str1) THEN row
        ELSE LevRowNoSubstitution(prev, ch, str1,
                 Append(row,
                        IF ch = str1[j]
                        THEN prev[j]
                        ELSE Min(row[j] + 1, prev[j + 1] + 1)))

RECURSIVE LevMatrixNoSubstitution(_, _, _)
LevMatrixNoSubstitution(str1, str2, matrix) ==
    LET i == Len(matrix)
    IN  IF i > Len(str2) THEN matrix
        ELSE LevMatrixNoSubstitution(str1, str2,
                 Append(matrix,
                        LevRowNoSubstitution(matrix[i], str2[i], str1, <<i>>)))

levenshteinDistanceNoSubstitution(str1, str2) ==
    LevMatrixNoSubstitution(str1, str2, <<[j \in 1..(Len(str1) + 1) |-> j - 1]>>)
        [Len(str2) + 1][Len(str1) + 1]

levenshteinDistance(str1, str2) ==
    LevMatrix(str1, str2, <<[j \in 1..(Len(str1) + 1) |-> j - 1]>>)
        [Len(str2) + 1][Len(str1) + 1]

\* (longer.length - editDistance) / longer.length
calculateSimilarity(str1, str2) ==
    LET longer  == IF Len(str1) > Len(str2) THEN str1 ELSE str2
        shorter == IF Len(str1) > Len(str2) THEN str2 ELSE str1
    IN  IF Len(longer) = 0 THEN One
        ELSE Frac(Len(longer) - levenshteinDistance(longer, shorter), Len(longer))

\* a variant: 0.8
SimilarityFloorLow == Frac(80, 100)

\* the literal 0.85
SimilarityFloor == Frac(85, 100)

arabicWordMatch(word1, word2) ==
    IF word1 = <<>> \/ word2 = <<>> THEN FALSE
    ELSE LET norm1 == normalizeArabicText(word1)
             norm2 == normalizeArabicText(word2)
         IN  IF norm1 = norm2 THEN TRUE
             ELSE IF Len(norm1) > 2 /\ Len(norm2) > 2
                  THEN FracGeq(calculateSimilarity(norm1, norm2), SimilarityFloor)
                  ELSE FALSE

\* ------------------------------------------------------------------------
\* Sequence Aligner
\* ------------------------------------------------------------------------

\* a variant that, for words that do not match, takes the cell above only
RECURSIVE LcsRowFromAbove(_, _, _, _)
LcsRowFromAbove(prev, word, arr2, row) ==
    LET j == Len(row)
    IN  IF j > Len(arr2) THEN row
        ELSE LcsRowFromAbove(prev, word, arr2,
                 Append(row,
                        IF arabicWordMatch(word, arr2[j])
                        THEN prev[j] + 1
                        ELSE prev[j + 1]))

\* one row of dp in longestCommonSubsequence; columns 0..n at indices 1..n+1
RECURSIVE LcsRowFrom(_, _, _, _)
LcsRowFrom(prev, word, arr2, row) ==
    LET j == Len(row)
    IN  IF j > Len(arr2) THEN row
        ELSE LcsRowFrom(prev, word, arr2,
                 Append(row,
                        IF arabicWordMatch(word, arr2[j])
                        THEN prev[j] + 1
                        ELSE Max(prev[j + 1], row[j])))

\* the rows 0..m of dp, at indices 1..m+1
RECURSIVE LcsTable(_, _, _)
LcsTable(arr1, arr2, rows) ==
    LET i == Len(rows)
    IN  IF i > Len(arr1) THEN rows
        ELSE LcsTable(arr1, arr2,
                 Append(rows, LcsRowFrom(rows[i], arr1[i], arr2, <<0>>)))

\* the reconstruction loop of longestCommonSubsequence
RECURSIVE LcsBacktrack(_, _, _, _, _, _)
LcsBacktrack(arr1, arr2, dp, i, j, lcs) ==
    IF ~(i > 0 /\ j > 0) THEN lcs
    ELSE IF arabicWordMatch(arr1[i], arr2[j])
         THEN LcsBacktrack(arr1, arr2, dp, i - 1, j - 1, <<arr1[i]>> \o lcs)
         ELSE IF dp[i][j + 1] > dp[i + 1][j]
              THEN LcsBacktrack(arr1, arr2, dp, i - 1, j, lcs)
              ELSE LcsBacktrack(arr1, arr2, dp, i, j - 1, lcs)

longestCommonSubsequence(arr1, arr2) ==
    LET dp == LcsTable(arr1, arr2, <<[j \in 1..(Len(arr2) + 1) |-> 0]>>)
    IN  LcsBacktrack(arr1, arr2, dp, Len(arr1), Len(arr2), <<>>)

\* ------------------------------------------------------------------------
\* Match Scorer
\* ------------------------------------------------------------------------

calculateSequenceMatch(transcribed, window) ==
    IF Len(transcribed) = 0 \/ Len(window) = 0 THEN Zero
    ELSE Frac(Len(longestCommonSubsequence(transcribed, window)),
              Max(Len(transcribed), Len(window)))

\* new Set(words)
SetOf(words) == {words[k] : k \in 1..Len(words)}

\* a variant that divides by the longer list, not by the larger set
calculateWordOverlapByLength(transcribed, window) ==
    LET transcribedSet == SetOf(transcribed)
        windowSet      == SetOf(window)
        overlap        == Cardinality(transcribedSet \cap windowSet)
    IN  Frac(overlap, Max(Len(transcribed), Len(window)))

calculateWordOverlap(transcribed, window) ==
    LET transcribedSet == SetOf(transcribed)
        windowSet      == SetOf(window)
        overlap        == Cardinality(transcribedSet \cap windowSet)
    IN  Frac(overlap, Max(Cardinality(transcribedSet), Cardinality(windowSet)))

calculateEditScore(transcribed, window) ==
    LET joinedTranscribed == Join(transcribed)
        joinedWindow      == Join(window)
        editDistance      == levenshteinDistance(joinedTranscribed, joinedWindow)
        maxLength         == Max(Len(joinedTranscribed), Len(joinedWindow))
    IN  IF maxLength > 0 THEN Frac(maxLength - editDistance, maxLength) ELSE Zero

\* a variant that returns the running sum without dividing it by matches
RECURSIVE AlignmentFromUndivided(_, _, _, _, _, _)
AlignmentFromUndivided(transcribed, window, minLength, i, alignmentScore, matches) ==
    IF i >= minLength
    THEN alignmentScore
    ELSE IF arabicWordMatch(transcribed[i + 1], window[i + 1])
         THEN AlignmentFromUndivided(transcribed, window, minLength, i + 1,
                            FracAdd(alignmentScore, Frac(minLength - i, minLength)),
                            matches + 1)
         ELSE AlignmentFromUndivided(transcribed, window, minLength, i + 1,
                            alignmentScore, matches)

\* the loop of calculateAlignmentScore from position i (0-based), with the
\* running alignmentScore and matches
RECURSIVE AlignmentFrom(_, _, _, _, _, _)
AlignmentFrom(transcribed, window, minLength, i, alignmentScore, matches) ==
    IF i >= minLength
    THEN IF matches > 0 THEN FracScale(1, matches, alignmentScore) ELSE Zero
    ELSE IF arabicWordMatch(transcribed[i + 1], window[i + 1])
         THEN AlignmentFrom(transcribed, window, minLength, i + 1,
                            FracAdd(alignmentScore, Frac(minLength - i, minLength)),
                            matches + 1)
         ELSE AlignmentFrom(transcribed, window, minLength, i + 1,
                            alignmentScore, matches)

calculateAlignmentScore(transcribed, window) ==
    AlignmentFrom(transcribed, window, Min(Len(transcribed), Len(window)), 0, Zero, 0)

\* Math.round of a fraction: the nearest integer, halves upward
Round(x) == (2 * x[1] + x[2]) \div (2 * x[2])

\* scoreWindow on the window's word list
scoreWindow(transcribedWords, windowWords) ==
    LET sequenceMatch  == calculateSequenceMatch(transcribedWords, windowWords)
        overlapScore   == calculateWordOverlap(transcribedWords, windowWords)
        editScore      == calculateEditScore(transcribedWords, windowWords)
        alignmentScore == calculateAlignmentScore(transcribedWords, windowWords)
    IN  [confidence     |-> FracAdd(FracScale(5, 10, sequenceMatch),
                                    FracAdd(FracScale(3, 10, overlapScore),
                                            FracScale(2, 10, editScore))),
         accuracy       |-> sequenceMatch,
         matchedWords   |-> Round(FracScale(Len(transcribedWords), 1, sequenceMatch)),
         totalWords     |-> Len(transcribedWords),
         alignmentScore |-> alignmentScore]

\* ------------------------------------------------------------------------
\* Corpus and inputs
\* ------------------------------------------------------------------------

\* QuranData handed to the constructor: two suras of short verses, written
\* with diacritics and letter variants as the reference text is; the two
\* verses of sura 2 are the same word
Quran ==
  <<
    [index |-> 1, ayas |-> <<
        [index |-> 1, text |-> <<"b", "kasra", "s", "m", "sp", "alif", "l", "l", "ha">>],
        [index |-> 2, text |-> <<"hah", "m", "d">>],
        [index |-> 3, text |-> <<"r", "b">>],
        [index |-> 4, text |-> <<"m", "l", "kaf">>],
        [index |-> 5, text |-> <<"d", "ya", "n">>],
        [index |-> 6, text |-> <<"r", "hah", "m", "ta_marbuta">>],
        [index |-> 7, text |-> <<"alif_hamza_above", "hah", "d">>],
        [index |-> 8, text |-> <<"q", "l">>]>>],
    [index |-> 2, ayas |-> <<
        [index |-> 1, text |-> <<"t", "ha">>],
        [index |-> 2, text |-> <<"t", "fatha", "ha">>]>>]
  >>

\* texts delivered by the transcription step: a verse, two verses, Latin
\* noise, whitespace and marks only, a verse followed by a noise word, the
\* last verse of sura 1, a verse of sura 2
Transcriptions ==
  <<
    <<"b", "s", "m", "sp", "alif", "l", "l", "ha">>,
    <<"b", "s", "m", "sp", "alif", "l", "l", "ha", "sp", "hah", "m", "d">>,
    <<"X", "y", "sp", "x">>,
    <<"sp", "fatha", "tab">>,
    <<"b", "s", "m", "sp", "alif", "l", "l", "ha", "sp", "x">>,
    <<"q", "l">>,
    <<"t", "ha">>
  >>

TranscriptionIds == 1..Len(Transcriptions)

\* arguments <<suraIndex, startingAyah, windowSize>> explored for
\* initializeSession; sura 3 is not in the corpus
InitializeArgs == {<<1, 1, 3>>, <<1, 2, 2>>, <<2, 1, 3>>, <<3, 1, 3>>}

\* arguments explored for jumpToPosition
JumpTargets == {1, 8}

\* ------------------------------------------------------------------------
\* Session state
\* ------------------------------------------------------------------------

VARIABLES
    session,    \* this.session: <<>> is null, <<s>> is the RecitationSession s
    op,         \* the method called last
    arg,        \* its arguments
    returned,   \* what processAudioChunk returned: <<>> is null, <<m>> the match
    threw,      \* whether the call threw
    recovered   \* whether the call ran handleConsecutiveFailures

\* the session manager, its recorder and its transcription service
VARIABLES
    events,           \* RecitationSessionManager.events: the handlers registered
    state,            \* RecitationSessionManager.state
    mediaRecorder,    \* the recorder's MediaRecorder.state
    onstopPending,    \* a stopped MediaRecorder has its onstop event to come
    processingQueue,  \* ChunkedTranscriptionService.processingQueue
    isProcessing,     \* ChunkedTranscriptionService.isProcessing
    transcribing,     \* chunks whose transcription a processQueue loop awaits
    microtasks,       \* handleTranscription calls suspended at their await
    chunks,           \* number of chunks delivered so far
    handled,          \* the handleTranscription calls so far, in order
    emitted           \* events handleTranscription delivered to the caller

matcher == <<session, op, arg, returned, threw, recovered>>

pipeline ==
    <<events, state, mediaRecorder, onstopPending, processingQueue, isProcessing,
      transcribing, microtasks, chunks, handled, emitted>>

vars == <<matcher, pipeline>>

\* the session manager after its constructor, with a recorder and a
\* transcription service just constructed
ManagerConstructed ==
    /\ events = {}
    /\ state = [isActive             |-> FALSE,
                isRecording          |-> FALSE,
                isProcessing         |-> FALSE,
                currentMatch         |-> <<>>,
                recentTranscriptions |-> <<>>,
                sessionStats         |-> <<>>]
    /\ mediaRecorder = "inactive"
    /\ onstopPending = FALSE
    /\ processingQueue = <<>>
    /\ isProcessing = FALSE
    /\ transcribing = <<>>
    /\ microtasks = <<>>
    /\ chunks = 0
    /\ handled = <<>>
    /\ emitted = <<>>

\* the literal 0.7, in tenths
DefaultThreshold == 7

\* the literal 0.5 of handleConsecutiveFailures, in tenths
ThresholdFloor == 5

\* the literal 3 of resetSession
DefaultWindowSize == 3

\* the literal 5 of handleConsecutiveFailures
WindowSizeCap == 5

\* the literal 3 of processAudioChunk
FailureLimit == 3

\* this.quran.suras.find(s => s.index === suraIndex): <<>> when there is none
RECURSIVE FindFrom(_, _)
FindFrom(suraIndex, k) ==
    IF k > Len(Quran) THEN <<>>
    ELSE IF Quran[k].index = suraIndex THEN <<Quran[k]>>
    ELSE FindFrom(suraIndex, k + 1)

FindSura(suraIndex) == FindFrom(suraIndex, 1)

\* windowAyas.map(a => a.text).join(' ')
CombinedText(windowAyas) == Join([k \in 1..Len(windowAyas) |-> windowAyas[k].text])

\* the window pushed for the slice ayas[i .. i + size - 1] (i is 0-based)
WindowAt(ayas, i, size) ==
    LET windowAyas     == SubSeq(ayas, i + 1, i + size)
        combinedText   == CombinedText(windowAyas)
        normalizedText == normalizeArabicText(combinedText)
    IN  [startAyah      |-> windowAyas[1].index,
         endAyah        |-> windowAyas[Len(windowAyas)].index,
         text           |-> combinedText,
         normalizedText |-> normalizedText,
         words          |-> WordsOf(normalizedText)]

\* the arguments WindowAt can get: a sura's verses, a start and a size that
\* fit; written <<i, size, ayas>>
WindowArgs ==
    {w \in (0..Max(Len(Quran[1].ayas), Len(Quran[2].ayas))) \X (1..WindowSizeCap)
               \X {Quran[k].ayas : k \in 1..Len(Quran)} :
        w[1] + w[2] <= Len(w[3])}

\* WindowAt tabulated over WindowArgs: the corpus never changes, so the
\* table stands for the call; TLC evaluates it once
WindowTable == [w \in WindowArgs |-> WindowAt(w[3], w[1], w[2])]

\* the inner loop of buildSlidingWindows: the windows that start at i
WindowsAt(ayas, maxSize, i) ==
    LET sizes == SelectSeq([size \in 1..maxSize |-> size],
                           LAMBDA size : i + size <= Len(ayas))
    IN  [k \in 1..Len(sizes) |-> WindowTable[<<i, sizes[k], ayas>>]]

\* the outer loop of buildSlidingWindows, from start i
RECURSIVE WindowsFrom(_, _, _, _)
WindowsFrom(ayas, maxSize, endPos, i) ==
    IF i >= endPos THEN <<>>
    ELSE WindowsAt(ayas, maxSize, i) \o WindowsFrom(ayas, maxSize, endPos, i + 1)

\* the literal 5 of buildSlidingWindows
MinWindowRadius == 5

\* a variant whose first start position is one verse late
buildSlidingWindowsLate(s) ==
    LET found == FindSura(s.suraIndex)
    IN  IF found = <<>> THEN s
        ELSE LET ayas         == found[1].ayas
                 windowRadius == Max(MinWindowRadius, s.windowSize * 2)
                 startPos     == Max(0, s.currentPosition - windowRadius)
                 endPos       == Min(Len(ayas), s.currentPosition + windowRadius)
             IN  [s EXCEPT !.slidingWindows =
                      WindowsFrom(ayas, s.windowSize, endPos, startPos)]

\* a variant that starts at the cursor and does not look back
buildSlidingWindowsFromCursor(s) ==
    LET found == FindSura(s.suraIndex)
    IN  IF found = <<>> THEN s
        ELSE LET ayas         == found[1].ayas
                 windowRadius == Max(MinWindowRadius, s.windowSize * 2)
                 startPos     == Max(0, s.currentPosition - 1)
                 endPos       == Min(Len(ayas), s.currentPosition + windowRadius)
             IN  [s EXCEPT !.slidingWindows =
                      WindowsFrom(ayas, s.windowSize, endPos, startPos)]

\* buildSlidingWindows: the session with slidingWindows rebuilt
buildSlidingWindows(s) ==
    LET found == FindSura(s.suraIndex)
    IN  IF found = <<>> THEN s
        ELSE LET ayas         == found[1].ayas
                 windowRadius == Max(MinWindowRadius, s.windowSize * 2)
                 startPos     == Max(0, s.currentPosition - windowRadius - 1)
                 endPos       == Min(Len(ayas), s.currentPosition + windowRadius)
             IN  [s EXCEPT !.slidingWindows =
                      WindowsFrom(ayas, s.windowSize, endPos, startPos)]

Init ==
    /\ session = <<>>
    /\ op = "constructor"
    /\ arg = <<>>
    /\ returned = <<>>
    /\ threw = FALSE
    /\ recovered = FALSE
    /\ ManagerConstructed

\* a variant that stores the new session before it looks the sura up
initializeSessionEager(suraIndex, startingAyah, windowSize) ==
    /\ op' = "initializeSession"
    /\ arg' = <<suraIndex, startingAyah, windowSize>>
    /\ returned' = <<>>
    /\ recovered' = FALSE
    /\ threw' = (FindSura(suraIndex) = <<>>)
    /\ session' = <<buildSlidingWindows(
           [suraIndex           |-> suraIndex,
            currentPosition     |-> startingAyah,
            windowSize          |-> windowSize,
            confidenceThreshold |-> DefaultThreshold,
            slidingWindows      |-> <<>>,
            sessionHistory      |-> <<>>,
            lastSuccessfulMatch |-> <<>>,
            consecutiveFailures |-> 0,
            isActive            |-> TRUE])>>

\* a variant that keeps the history of the session it replaces
initializeSessionKeeping(suraIndex, startingAyah, windowSize) ==
    /\ op' = "initializeSession"
    /\ arg' = <<suraIndex, startingAyah, windowSize>>
    /\ returned' = <<>>
    /\ recovered' = FALSE
    /\ IF FindSura(suraIndex) = <<>>
       THEN /\ threw' = TRUE
            /\ UNCHANGED session
       ELSE /\ threw' = FALSE
            /\ session' = <<buildSlidingWindows(
                   [suraIndex           |-> suraIndex,
                    currentPosition     |-> startingAyah,
                    windowSize          |-> windowSize,
                    confidenceThreshold |-> DefaultThreshold,
                    slidingWindows      |-> <<>>,
                    sessionHistory      |-> IF session = <<>> THEN <<>>
                                            ELSE session[1].sessionHistory,
                    lastSuccessfulMatch |-> <<>>,
                    consecutiveFailures |-> 0,
                    isActive            |-> TRUE])>>

initializeSession(suraIndex, startingAyah, windowSize) ==
    /\ op' = "initializeSession"
    /\ arg' = <<suraIndex, startingAyah, windowSize>>
    /\ returned' = <<>>
    /\ recovered' = FALSE
    /\ IF FindSura(suraIndex) = <<>>
       THEN /\ threw' = TRUE
            /\ UNCHANGED session
       ELSE /\ threw' = FALSE
            /\ session' = <<buildSlidingWindows(
                   [suraIndex           |-> suraIndex,
                    currentPosition     |-> startingAyah,
                    windowSize          |-> windowSize,
                    confidenceThreshold |-> DefaultThreshold,
                    slidingWindows      |-> <<>>,
                    sessionHistory      |-> <<>>,
                    lastSuccessfulMatch |-> <<>>,
                    consecutiveFailures |-> 0,
                    isActive            |-> TRUE])>>

\* a variant without the filter: the empty string splits into one empty word
TranscribedWordsUnfiltered(transcribedText) ==
    SplitWhitespace(normalizeArabicText(transcribedText))

\* normalizeArabicText(transcribedText).split(/\s+/).filter(w => w.length > 0)
TranscribedWords(transcribedText) == WordsOf(normalizeArabicText(transcribedText))

\* every word list a window of the corpus can carry
AllWindowWords ==
    UNION {{WindowAt(Quran[k].ayas, i, size).words :
               i \in {i \in 0..(Len(Quran[k].ayas) - 1) : i + size <= Len(Quran[k].ayas)}} :
           k \in 1..Len(Quran), size \in 1..WindowSizeCap}

\* the word list of every transcription of the model; TLC evaluates it once
TranscriptionWords == [id \in TranscriptionIds |-> TranscribedWords(Transcriptions[id])]

\* every word list a transcription of the model yields
AllTranscribedWords == {TranscriptionWords[id] : id \in TranscriptionIds}

\* scoreWindow tabulated over the arguments that occur: scoreWindow is pure,
\* so the table stands for the call; TLC evaluates it once
ScoreTable ==
    [transcribedWords \in AllTranscribedWords, windowWords \in AllWindowWords |->
        scoreWindow(transcribedWords, windowWords)]

\* 0.4 * confidence + 0.4 * accuracy + 0.2 * alignmentScore, the sort key
CombinedScore(m) ==
    FracAdd(FracScale(4, 10, m.confidence),
            FracAdd(FracScale(4, 10, m.accuracy), FracScale(2, 10, m.alignmentScore)))

\* the scoring loop of processAudioChunk: the score of every window, then
\* the ones at or above the threshold, in window order
WindowScores(transcribedWords, windows, threshold) ==
    LET scored == [i \in 1..Len(windows) |->
                      LET window == windows[i]
                          score  == ScoreTable[transcribedWords, window.words]
                      IN  [windowIndex    |-> i - 1,
                           confidence     |-> score.confidence,
                           accuracy       |-> score.accuracy,
                           matchedWords   |-> score.matchedWords,
                           totalWords     |-> score.totalWords,
                           startAyah      |-> window.startAyah,
                           endAyah        |-> window.endAyah,
                           alignmentScore |-> score.alignmentScore]]
    IN  SelectSeq(scored, LAMBDA m : FracGeq(m.confidence, Frac(threshold, 10)))

\* a variant that puts the later of two entries of equal score first
SortByScoreLaterFirst(windowScores) ==
    LET n        == Len(windowScores)
        key      == [k \in 1..n |-> CombinedScore(windowScores[k])]
        Before(j, k) == FracGt(key[j], key[k]) \/ (key[j] = key[k] /\ j > k)
        place    == [k \in 1..n |-> 1 + Cardinality({j \in 1..n : Before(j, k)})]
    IN  [r \in 1..n |-> windowScores[CHOOSE k \in 1..n : place[k] = r]]

\* windowScores.sort((a, b) => scoreB - scoreA): descending CombinedScore,
\* entries of equal score in their original order (the sort is stable);
\* the entry at k moves behind the entries that rank before it
SortByScore(windowScores) ==
    LET n        == Len(windowScores)
        key      == [k \in 1..n |-> CombinedScore(windowScores[k])]
        Before(j, k) == FracGt(key[j], key[k]) \/ (key[j] = key[k] /\ j < k)
        place    == [k \in 1..n |-> 1 + Cardinality({j \in 1..n : Before(j, k)})]
    IN  [r \in 1..n |-> windowScores[CHOOSE k \in 1..n : place[k] = r]]

\* the literal 0.1 of handleConsecutiveFailures, in tenths
ThresholdStep == 1

\* a variant that lowers the threshold by 0.2
handleConsecutiveFailuresSteep(s) ==
    LET threshold  == Max(ThresholdFloor, s.confidenceThreshold - 2 * ThresholdStep)
        windowSize == Min(WindowSizeCap, s.windowSize + 1)
        position   == IF s.lastSuccessfulMatch # <<>>
                      THEN s.lastSuccessfulMatch[1].startAyah
                      ELSE 1
    IN  buildSlidingWindows([s EXCEPT !.confidenceThreshold = threshold,
                                      !.windowSize = windowSize,
                                      !.currentPosition = position])

\* a variant that goes back to the verse after the last successful match
handleConsecutiveFailuresAfter(s) ==
    LET threshold  == Max(ThresholdFloor, s.confidenceThreshold - ThresholdStep)
        windowSize == Min(WindowSizeCap, s.windowSize + 1)
        position   == IF s.lastSuccessfulMatch # <<>>
                      THEN s.lastSuccessfulMatch[1].endAyah + 1
                      ELSE 1
    IN  buildSlidingWindows([s EXCEPT !.confidenceThreshold = threshold,
                                      !.windowSize = windowSize,
                                      !.currentPosition = position])

\* a variant without the floor of the threshold
handleConsecutiveFailuresNoFloor(s) ==
    LET threshold  == s.confidenceThreshold - ThresholdStep
        windowSize == Min(WindowSizeCap, s.windowSize + 1)
        position   == IF s.lastSuccessfulMatch # <<>>
                      THEN s.lastSuccessfulMatch[1].startAyah
                      ELSE 1
    IN  buildSlidingWindows([s EXCEPT !.confidenceThreshold = threshold,
                                      !.windowSize = windowSize,
                                      !.currentPosition = position])

\* handleConsecutiveFailures: the session after the recovery step
handleConsecutiveFailures(s) ==
    LET threshold  == Max(ThresholdFloor, s.confidenceThreshold - ThresholdStep)
        windowSize == Min(WindowSizeCap, s.windowSize + 1)
        position   == IF s.lastSuccessfulMatch # <<>>
                      THEN s.lastSuccessfulMatch[1].startAyah
                      ELSE 1
    IN  buildSlidingWindows([s EXCEPT !.confidenceThreshold = threshold,
                                      !.windowSize = windowSize,
                                      !.currentPosition = position])

\* a variant that leaves the cursor on the last verse of the match
RecordMatchStay(s, bestMatch) ==
    buildSlidingWindows([s EXCEPT !.lastSuccessfulMatch = <<bestMatch>>,
                                  !.currentPosition = bestMatch.endAyah,
                                  !.consecutiveFailures = 0,
                                  !.sessionHistory = Append(@, bestMatch)])

\* a variant that puts the threshold and the window size back to the defaults
RecordMatchRestoring(s, bestMatch) ==
    buildSlidingWindows([s EXCEPT !.lastSuccessfulMatch = <<bestMatch>>,
                                  !.currentPosition = bestMatch.endAyah + 1,
                                  !.consecutiveFailures = 0,
                                  !.confidenceThreshold = DefaultThreshold,
                                  !.windowSize = DefaultWindowSize,
                                  !.sessionHistory = Append(@, bestMatch)])

\* the match branch of processAudioChunk: the session after bestMatch
RecordMatch(s, bestMatch) ==
    buildSlidingWindows([s EXCEPT !.lastSuccessfulMatch = <<bestMatch>>,
                                  !.currentPosition = bestMatch.endAyah + 1,
                                  !.consecutiveFailures = 0,
                                  !.sessionHistory = Append(@, bestMatch)])

\* a variant whose recovery step clears the failure count
RecordFailureClearing(s) ==
    LET failed == [s EXCEPT !.consecutiveFailures = @ + 1]
    IN  IF failed.consecutiveFailures >= FailureLimit
        THEN [session   |-> [handleConsecutiveFailures(failed)
                                 EXCEPT !.consecutiveFailures = 0],
              recovered |-> TRUE]
        ELSE [session |-> failed, recovered |-> FALSE]

\* a variant that recovers only on the failure that reaches the limit
RecordFailureOnce(s) ==
    LET failed == [s EXCEPT !.consecutiveFailures = @ + 1]
    IN  IF failed.consecutiveFailures = FailureLimit
        THEN [session |-> handleConsecutiveFailures(failed), recovered |-> TRUE]
        ELSE [session |-> failed, recovered |-> FALSE]

\* a variant that recovers one failure early
RecordFailureEarly(s) ==
    LET failed == [s EXCEPT !.consecutiveFailures = @ + 1]
    IN  IF failed.consecutiveFailures >= FailureLimit - 1
        THEN [session |-> handleConsecutiveFailures(failed), recovered |-> TRUE]
        ELSE [session |-> failed, recovered |-> FALSE]

\* the no-match branch of processAudioChunk: the session after the failure,
\* and whether handleConsecutiveFailures ran
RecordFailure(s) ==
    LET failed == [s EXCEPT !.consecutiveFailures = @ + 1]
    IN  IF failed.consecutiveFailures >= FailureLimit
        THEN [session |-> handleConsecutiveFailures(failed), recovered |-> TRUE]
        ELSE [session |-> failed, recovered |-> FALSE]

processAudioChunk(id) ==
    /\ session # <<>> =>
           /\ Len(session[1].sessionHistory) < MaxHistory
           /\ session[1].consecutiveFailures < MaxFailures
    /\ op' = "processAudioChunk"
    /\ arg' = <<id>>
    /\ threw' = FALSE
    /\ IF session = <<>> \/ ~session[1].isActive
       THEN /\ returned' = <<>>
            /\ recovered' = FALSE
            /\ UNCHANGED session
       ELSE LET s                == session[1]
                transcribedWords == TranscriptionWords[id]
            IN  IF Len(transcribedWords) = 0
                THEN /\ returned' = <<>>
                     /\ recovered' = FALSE
                     /\ UNCHANGED session
                ELSE LET windowScores ==
                             SortByScore(WindowScores(transcribedWords,
                                 s.slidingWindows, s.confidenceThreshold))
                     IN  IF windowScores # <<>>
                         THEN /\ session' = <<RecordMatch(s, windowScores[1])>>
                              /\ returned' = <<windowScores[1]>>
                              /\ recovered' = FALSE
                         ELSE LET outcome == RecordFailure(s)
                              IN  /\ session' = <<outcome.session>>
                                  /\ returned' = <<>>
                                  /\ recovered' = outcome.recovered

\* a variant that leaves the threshold as it is
jumpToPositionKeepThreshold(ayahNumber) ==
    /\ op' = "jumpToPosition"
    /\ arg' = <<ayahNumber>>
    /\ returned' = <<>>
    /\ threw' = FALSE
    /\ recovered' = FALSE
    /\ IF session = <<>>
       THEN UNCHANGED session
       ELSE session' = <<buildSlidingWindows(
                [session[1] EXCEPT !.currentPosition = ayahNumber,
                                   !.consecutiveFailures = 0])>>

jumpToPosition(ayahNumber) ==
    /\ op' = "jumpToPosition"
    /\ arg' = <<ayahNumber>>
    /\ returned' = <<>>
    /\ threw' = FALSE
    /\ recovered' = FALSE
    /\ IF session = <<>>
       THEN UNCHANGED session
       ELSE session' = <<buildSlidingWindows(
                [session[1] EXCEPT !.currentPosition = ayahNumber,
                                   !.consecutiveFailures = 0,
                                   !.confidenceThreshold = DefaultThreshold])>>

\* a variant that leaves the window size as it is
resetSessionKeepWindow ==
    /\ op' = "resetSession"
    /\ arg' = <<>>
    /\ returned' = <<>>
    /\ threw' = FALSE
    /\ recovered' = FALSE
    /\ IF session = <<>>
       THEN UNCHANGED session
       ELSE session' = <<[session[1] EXCEPT !.consecutiveFailures = 0,
                                            !.confidenceThreshold = DefaultThreshold]>>

\* a variant that also forgets the matches made so far
resetSessionForgetting ==
    /\ op' = "resetSession"
    /\ arg' = <<>>
    /\ returned' = <<>>
    /\ threw' = FALSE
    /\ recovered' = FALSE
    /\ IF session = <<>>
       THEN UNCHANGED session
       ELSE session' = <<[session[1] EXCEPT !.consecutiveFailures = 0,
                                            !.confidenceThreshold = DefaultThreshold,
                                            !.windowSize = DefaultWindowSize,
                                            !.sessionHistory = <<>>]>>

resetSession ==
    /\ op' = "resetSession"
    /\ arg' = <<>>
    /\ returned' = <<>>
    /\ threw' = FALSE
    /\ recovered' = FALSE
    /\ IF session = <<>>
       THEN UNCHANGED session
       ELSE session' = <<[session[1] EXCEPT !.consecutiveFailures = 0,
                                            !.confidenceThreshold = DefaultThreshold,
                                            !.windowSize = DefaultWindowSize]>>

RECURSIVE SumConfidence(_, _)
\* the reduce of getSessionStats: the sum of the confidences of the first k
\* entries of the history
SumConfidence(sessionHistory, k) ==
    IF k = 0 THEN Zero
    ELSE FracAdd(SumConfidence(sessionHistory, k - 1), sessionHistory[k].confidence)

\* the object getSessionStats builds for a session
SessionStats(s) ==
    [suraIndex           |-> s.suraIndex,
     currentPosition     |-> s.currentPosition,
     totalMatches        |-> Len(s.sessionHistory),
     averageConfidence   |-> IF Len(s.sessionHistory) > 0
                             THEN FracScale(1, Len(s.sessionHistory),
                                      SumConfidence(s.sessionHistory,
                                                    Len(s.sessionHistory)))
                             ELSE Zero,
     consecutiveFailures |-> s.consecutiveFailures,
     confidenceThreshold |-> s.confidenceThreshold,
     windowSize          |-> s.windowSize]

getSessionStats ==
    /\ op' = "getSessionStats"
    /\ arg' = <<>>
    /\ returned' = IF session = <<>> THEN <<>> ELSE <<SessionStats(session[1])>>
    /\ threw' = FALSE
    /\ recovered' = FALSE
    /\ UNCHANGED session

\* the engine driven on its own: the session manager stays as constructed
Next ==
    \/ \E a \in InitializeArgs :
           initializeSession(a[1], a[2], a[3]) /\ UNCHANGED pipeline
    \/ \E id \in TranscriptionIds : processAudioChunk(id) /\ UNCHANGED pipeline
    \/ \E ayahNumber \in JumpTargets :
           jumpToPosition(ayahNumber) /\ UNCHANGED pipeline
    \/ resetSession /\ UNCHANGED pipeline
    \/ getSessionStats /\ UNCHANGED pipeline

Spec == Init /\ [][Next]_vars

\* ------------------------------------------------------------------------
\* The session manager and the transcription service
\* ------------------------------------------------------------------------

\* the handlers a caller can register
SessionEvents ==
    {"onMatchFound", "onNoMatch", "onSilenceDetected", "onVoiceDetected",
     "onSessionComplete", "onError", "onStateChange"}

\* events arguments explored for startSession: every handler, and the
\* default {}
StartEvents == {SessionEvents, {}}

\* configurations <<suraIndex, startingAyah || 1, windowSize || 3>> explored
\* for startSession
StartConfigs == {<<1, 1, 3>>}

\* what the transcription request can come back with: a failure, or a
\* response with the text of a transcription (id 0: without text)
Responses ==
    {[ok |-> FALSE, id |-> 0]} \cup
    {[ok |-> TRUE, id |-> id] : id \in {0, 1, 3, 4, 6}}

\* transcribeChunk's result for a response that is ok: result.text?.trim() || ''
ResponseText(response) ==
    IF response.id = 0 THEN <<>> ELSE Trim(Transcriptions[response.id])

\* the length recentTranscriptions is cut to
RecentCap == 5

\* this.state after updateState(updates)
updateState(st, updates) ==
    [f \in DOMAIN st |-> IF f \in DOMAIN updates THEN updates[f] ELSE st[f]]

\* what the manager reads from matcher.getSessionStats()
MatcherStats(sess) == IF sess = <<>> THEN <<>> ELSE <<SessionStats(sess[1])>>

startSession(config, handlers) ==
    /\ microtasks = <<>>
    /\ events' = handlers
    /\ initializeSession(config[1], config[2], config[3])
    /\ IF threw'
       THEN UNCHANGED <<state, mediaRecorder>>
       ELSE /\ mediaRecorder' = "recording"
            /\ state' = updateState(state, [isActive     |-> TRUE,
                                            isRecording  |-> TRUE,
                                            sessionStats |-> MatcherStats(session')])
    /\ UNCHANGED <<onstopPending, processingQueue, isProcessing, transcribing,
                   microtasks, chunks, handled, emitted>>

stopSession ==
    /\ microtasks = <<>>
    /\ mediaRecorder' = "inactive"
    /\ onstopPending' = (onstopPending \/ mediaRecorder = "recording")
    /\ processingQueue' = <<>>
    /\ state' = updateState(state, [isActive     |-> FALSE,
                                    isRecording  |-> FALSE,
                                    isProcessing |-> FALSE])
    /\ UNCHANGED <<matcher, events, isProcessing, transcribing, microtasks,
                   chunks, handled, emitted>>

\* a variant that puts the chunk at the head of the queue
processChunkAtHead(chunk) ==
    LET queue == <<chunk>> \o processingQueue
    IN  IF ~isProcessing
        THEN /\ isProcessing' = TRUE
             /\ transcribing' = Append(transcribing, Head(queue))
             /\ processingQueue' = Tail(queue)
        ELSE /\ processingQueue' = queue
             /\ UNCHANGED <<isProcessing, transcribing>>

\* a variant that starts processQueue whether or not one is running
processChunkUnguarded(chunk) ==
    LET queue == Append(processingQueue, chunk)
    IN  /\ isProcessing' = TRUE
        /\ transcribing' = Append(transcribing, Head(queue))
        /\ processingQueue' = Tail(queue)

\* processChunk, and processQueue up to its first await when it is started
processChunk(chunk) ==
    LET queue == Append(processingQueue, chunk)
    IN  IF ~isProcessing
        THEN /\ isProcessing' = TRUE
             /\ transcribing' = Append(transcribing, Head(queue))
             /\ processingQueue' = Tail(queue)
        ELSE /\ processingQueue' = queue
             /\ UNCHANGED <<isProcessing, transcribing>>

\* the recorder finalizes a chunk while it records and starts the next one
onChunkReady ==
    /\ microtasks = <<>>
    /\ mediaRecorder = "recording"
    /\ chunks < MaxChunks
    /\ chunks' = chunks + 1
    /\ processChunk(chunks')
    /\ UNCHANGED <<matcher, events, state, mediaRecorder, onstopPending,
                   microtasks, handled, emitted>>

\* the onstop event of a recorder that was stopped: the audio left over is
\* delivered as a last chunk when it is large enough
onstop(delivered) ==
    /\ microtasks = <<>>
    /\ onstopPending
    /\ onstopPending' = FALSE
    /\ IF delivered
       THEN /\ chunks < MaxChunks
            /\ chunks' = chunks + 1
            /\ processChunk(chunks')
       ELSE UNCHANGED <<chunks, processingQueue, isProcessing, transcribing>>
    /\ UNCHANGED <<matcher, events, state, mediaRecorder, microtasks, handled,
                   emitted>>

\* this.state after the first statements of handleTranscription
TranscriptionNoted(st, id) ==
    LET recent == <<id>> \o st.recentTranscriptions
        capped == IF Len(recent) > RecentCap
                  THEN SubSeq(recent, 1, Len(recent) - 1)
                  ELSE recent
    IN  updateState(st, [isProcessing         |-> TRUE,
                         recentTranscriptions |-> capped])

\* handleTranscription up to its await: the engine scores the transcription
\* and the rest of the call waits in microtasks
handleTranscription(chunk, id) ==
    /\ processAudioChunk(id)
    /\ handled' = Append(handled, [chunk         |-> chunk,
                                   transcription |-> id,
                                   match         |-> returned'])
    /\ microtasks' = Append(microtasks, [transcription |-> id,
                                         match         |-> returned'])

\* the processQueue loop numbered k goes on after its await: it hands a
\* transcription that is not empty to handleTranscription, then takes the
\* next chunk or, with the queue empty, ends
transcribeChunkSettles(k, response) ==
    /\ microtasks = <<>>
    /\ k \in 1..Len(transcribing)
    /\ LET chunk  == transcribing[k]
           ready  == response.ok /\ Trim(ResponseText(response)) # <<>>
           others == [j \in 1..(Len(transcribing) - 1) |->
                         IF j < k THEN transcribing[j] ELSE transcribing[j + 1]]
           ended  == processingQueue = <<>>
           noted  == IF ready THEN TranscriptionNoted(state, response.id) ELSE state
       IN  /\ IF ready
              THEN handleTranscription(chunk, response.id)
              ELSE UNCHANGED <<matcher, handled, microtasks>>
           /\ state' = IF ended THEN updateState(noted, [isProcessing |-> FALSE])
                                ELSE noted
           /\ IF ended
              THEN /\ transcribing' = others
                   /\ isProcessing' = FALSE
                   /\ UNCHANGED processingQueue
              ELSE /\ transcribing' = [transcribing EXCEPT ![k] = Head(processingQueue)]
                   /\ processingQueue' = Tail(processingQueue)
                   /\ UNCHANGED isProcessing
    /\ UNCHANGED <<events, mediaRecorder, onstopPending, chunks, emitted>>

\* a variant that delivers onNoMatch after every transcription
handleTranscriptionResumesAlways ==
    /\ microtasks # <<>>
    /\ LET call == Head(microtasks)
       IN  /\ microtasks' = Tail(microtasks)
           /\ IF call.match # <<>>
              THEN /\ state' = updateState(state,
                                   [currentMatch |-> call.match,
                                    sessionStats |-> MatcherStats(session),
                                    isProcessing |-> FALSE])
                   /\ emitted' =
                          (IF "onMatchFound" \in events
                           THEN Append(emitted, [event         |-> "onMatchFound",
                                                 transcription |-> call.transcription,
                                                 match         |-> call.match])
                           ELSE emitted)
                          \o (IF "onNoMatch" \in events
                              THEN <<[event         |-> "onNoMatch",
                                      transcription |-> call.transcription,
                                      match         |-> <<>>]>>
                              ELSE <<>>)
              ELSE /\ state' = updateState(state, [isProcessing |-> FALSE])
                   /\ emitted' =
                          IF "onNoMatch" \in events
                          THEN Append(emitted, [event         |-> "onNoMatch",
                                                transcription |-> call.transcription,
                                                match         |-> <<>>])
                          ELSE emitted
    /\ UNCHANGED <<matcher, events, mediaRecorder, onstopPending, processingQueue,
                   isProcessing, transcribing, chunks, handled>>

\* handleTranscription after its await: the state update and the event for
\* the engine's answer
handleTranscriptionResumes ==
    /\ microtasks # <<>>
    /\ LET call == Head(microtasks)
       IN  /\ microtasks' = Tail(microtasks)
           /\ IF call.match # <<>>
              THEN /\ state' = updateState(state,
                                   [currentMatch |-> call.match,
                                    sessionStats |-> MatcherStats(session),
                                    isProcessing |-> FALSE])
                   /\ emitted' =
                          IF "onMatchFound" \in events
                          THEN Append(emitted, [event         |-> "onMatchFound",
                                                transcription |-> call.transcription,
                                                match         |-> call.match])
                          ELSE emitted
              ELSE /\ state' = updateState(state, [isProcessing |-> FALSE])
                   /\ emitted' =
                          IF "onNoMatch" \in events
                          THEN Append(emitted, [event         |-> "onNoMatch",
                                                transcription |-> call.transcription,
                                                match         |-> <<>>])
                          ELSE emitted
    /\ UNCHANGED <<matcher, events, mediaRecorder, onstopPending, processingQueue,
                   isProcessing, transcribing, chunks, handled>>

NextPipeline ==
    \/ \E config \in StartConfigs, handlers \in StartEvents :
           startSession(config, handlers)
    \/ stopSession
    \/ onChunkReady
    \/ \E delivered \in BOOLEAN : onstop(delivered)
    \/ \E k \in 1..Len(transcribing), response \in Responses :
           transcribeChunkSettles(k, response)
    \/ handleTranscriptionResumes

SpecPipeline == Init /\ [][NextPipeline]_vars

\* the transcription service a session drives, looked at for its queue:
\* what a request comes back with is a failure, a response without text or
\* a response with a text no verse matches
QueueResponses ==
    {[ok |-> FALSE, id |-> 0], [ok |-> TRUE, id |-> 0], [ok |-> TRUE, id |-> 3]}

NextQueue ==
    \/ \E config \in StartConfigs : startSession(config, {})
    \/ stopSession
    \/ onChunkReady
    \/ \E delivered \in BOOLEAN : onstop(delivered)
    \/ \E k \in 1..Len(transcribing), response \in QueueResponses :
           transcribeChunkSettles(k, response)
    \/ handleTranscriptionResumes

\* every transcription request settles, with a response or with a failure,
\* and a suspended handleTranscription call is resumed
SpecQueue ==
    /\ Init
    /\ [][NextQueue]_vars
    /\ WF_vars(\E k \in 1..Len(transcribing), response \in QueueResponses :
                   transcribeChunkSettles(k, response))
    /\ WF_vars(handleTranscriptionResumes)

\* ------------------------------------------------------------------------
\* normalizeArabicText on its own
\* ------------------------------------------------------------------------

\* characters of the texts: a diacritic, the letters the normalizer folds and
\* one it folds to, a plain letter, whitespace, a Latin capital
TextChars ==
    {"fatha", "alif_hamza_above", "ta_marbuta", "ya", "alif_maqsura", "keheh",
     "b", "sp", "tab", "X"}

RECURSIVE Texts(_)
\* the texts of at most n characters
Texts(n) ==
    IF n = 0 THEN {<<>>}
    ELSE LET shorter == Texts(n - 1)
         IN  shorter \cup {Append(t, c) : t \in {t \in shorter : Len(t) = n - 1},
                                           c \in TextChars}

InitNormalize ==
    /\ session = <<>>
    /\ op = "constructor"
    /\ arg \in {<<text>> : text \in Texts(MaxText)}
    /\ returned = <<>>
    /\ threw = FALSE
    /\ recovered = FALSE
    /\ ManagerConstructed

\* a call of normalizeArabicText on the text, and a call on a text already
\* normalized
Normalize ==
    /\ op \in {"constructor", "normalizeArabicText"}
    /\ IF returned = <<>> THEN TRUE ELSE returned[1] # arg[1]
    /\ op' = "normalizeArabicText"
    /\ arg' = IF op = "constructor" THEN arg ELSE returned
    /\ returned' = <<normalizeArabicText(arg'[1])>>
    /\ UNCHANGED <<session, threw, recovered>>

NextNormalize == Normalize /\ UNCHANGED pipeline

SpecNormalize == InitNormalize /\ [][NextNormalize]_vars

\* ------------------------------------------------------------------------
\* arabicWordMatch on its own
\* ------------------------------------------------------------------------

\* letters of the words
WordLetters == {"b", "m"}

RECURSIVE LetterWords(_)
\* the words of at most n letters
LetterWords(n) ==
    IF n = 0 THEN {<<>>}
    ELSE LET shorter == LetterWords(n - 1)
         IN  shorter \cup {Append(w, c) : w \in {w \in shorter : Len(w) = n - 1},
                                           c \in WordLetters}

\* words as they are written: with a diacritic, with letter variants, of
\* a diacritic only
WrittenWords ==
    { <<"b", "fatha", "m">>, <<"fatha">>, <<"ya">>, <<"alif_maqsura">>,
      <<"m", "b", "ta_marbuta">>, <<"m", "b", "ha">>, <<"m", "b", "m">> }

\* arguments <<word1, word2>> of arabicWordMatch: the first word is not the
\* shorter one and, when spelled with the two letters, begins with the first
\* of them; the call is made in both orders, and exchanging the two letters
\* gives the other pairs
WordArgs ==
    LET words  == LetterWords(MaxLetters) \cup WrittenWords
        firsts == {w \in words : w = <<>> \/ w[1] # "m" \/ w \in WrittenWords}
    IN  {p \in firsts \X words : Len(p[2]) <= Len(p[1])}

InitWords ==
    /\ session = <<>>
    /\ op = "constructor"
    /\ arg \in WordArgs
    /\ returned = <<>>
    /\ threw = FALSE
    /\ recovered = FALSE
    /\ ManagerConstructed

\* arabicWordMatch on the two words, in both orders and on the first word
\* and itself, with the edit distance of the normalized words
MatchWords ==
    /\ op = "constructor"
    /\ op' = "arabicWordMatch"
    /\ returned' = <<[match    |-> arabicWordMatch(arg[1], arg[2]),
                      reverse  |-> arabicWordMatch(arg[2], arg[1]),
                      self     |-> arabicWordMatch(arg[1], arg[1]),
                      distance |-> levenshteinDistance(normalizeArabicText(arg[1]),
                                                       normalizeArabicText(arg[2]))]>>
    /\ UNCHANGED <<session, arg, threw, recovered>>

NextWords == MatchWords /\ UNCHANGED pipeline

SpecWords == InitWords /\ [][NextWords]_vars

\* ------------------------------------------------------------------------
\* longestCommonSubsequence on its own
\* ------------------------------------------------------------------------

\* normalized words of seven letters: the second matches the first and the
\* third, which differ in two letters and do not match each other
LcsWords ==
    { <<"alif", "l", "r", "hah", "m", "alif", "n">>,
      <<"alif", "l", "r", "hah", "m", "alif", "m">>,
      <<"alif", "l", "r", "hah", "ya", "alif", "m">> }

RECURSIVE LcsLists(_)
\* the word lists of at most n words
LcsLists(n) ==
    IF n = 0 THEN {<<>>}
    ELSE LET shorter == LcsLists(n - 1)
         IN  shorter \cup {Append(l, w) : l \in {l \in shorter : Len(l) = n - 1},
                                           w \in LcsWords}

InitLcs ==
    /\ session = <<>>
    /\ op = "constructor"
    /\ arg \in LcsLists(MaxLcsWords) \X LcsLists(MaxLcsWords)
    /\ returned = <<>>
    /\ threw = FALSE
    /\ recovered = FALSE
    /\ ManagerConstructed

\* calculateSequenceMatch on the two lists, with the list
\* longestCommonSubsequence returns for them and the last cell of its dp
AlignSequences ==
    /\ op = "constructor"
    /\ op' = "calculateSequenceMatch"
    /\ returned' =
           <<[lcs           |-> longestCommonSubsequence(arg[1], arg[2]),
              cell          |-> LcsTable(arg[1], arg[2],
                                         <<[j \in 1..(Len(arg[2]) + 1) |-> 0]>>)
                                    [Len(arg[1]) + 1][Len(arg[2]) + 1],
              sequenceMatch |-> calculateSequenceMatch(arg[1], arg[2])]>>
    /\ UNCHANGED <<session, arg, threw, recovered>>

NextLcs == AlignSequences /\ UNCHANGED pipeline

SpecLcs == InitLcs /\ [][NextLcs]_vars

\* ------------------------------------------------------------------------
\* scoreWindow on its own
\* ------------------------------------------------------------------------

\* normalized words handed to scoreWindow: two short words, and two words of
\* seven letters that differ in the last letter
ScoreWords ==
    { <<"b", "s", "m">>,
      <<"alif", "l", "l", "ha">>,
      <<"alif", "l", "r", "hah", "m", "alif", "n">>,
      <<"alif", "l", "r", "hah", "m", "alif", "m">> }

RECURSIVE WordLists(_)
\* the word lists of at most n words
WordLists(n) ==
    IF n = 0 THEN {<<>>}
    ELSE LET shorter == WordLists(n - 1)
         IN  shorter \cup {Append(l, w) : l \in {l \in shorter : Len(l) = n - 1},
                                           w \in ScoreWords}

\* arguments <<transcribedWords, window.words>> of scoreWindow; the caller
\* hands it no empty transcribedWords
ScoreArgs == (WordLists(MaxWords) \ {<<>>}) \X WordLists(MaxWords)

InitScore ==
    /\ session = <<>>
    /\ op = "constructor"
    /\ arg \in ScoreArgs
    /\ returned = <<>>
    /\ threw = FALSE
    /\ recovered = FALSE
    /\ ManagerConstructed

\* one turn of the scoring loop of processAudioChunk: the score of the
\* window, and whether it is pushed onto windowScores at each threshold
ScoreOneWindow ==
    /\ op = "constructor"
    /\ op' = "scoreWindow"
    /\ returned' =
           LET score == scoreWindow(arg[1], arg[2])
           IN  <<[score  |-> score,
                  pushed |-> [t \in ThresholdFloor..DefaultThreshold |->
                                 FracGeq(score.confidence, Frac(t, 10))]]>>
    /\ UNCHANGED <<session, arg, threw, recovered>>

NextScore == ScoreOneWindow /\ UNCHANGED pipeline

SpecScore == InitScore /\ [][NextScore]_vars

\* ------------------------------------------------------------------------
\* Vocabulary of the properties
\* ------------------------------------------------------------------------

\* the session before and after a step, when there is one
S == session[1]

Sp == session'[1]

\* the window list buildSlidingWindows yields for the position and window
\* size a session holds
FreshWindows(s) == buildSlidingWindows(s).slidingWindows

\* a text with no word in it: whitespace and diacritics only
NoWords(text) == \A k \in 1..Len(text) : text[k] \in Whitespace \cup Diacritics

\* the step is a processAudioChunk call that got past both early returns
Scored ==
    /\ op' = "processAudioChunk"
    /\ session # <<>>
    /\ S.isActive
    /\ ~NoWords(Transcriptions[arg'[1]])

\* the step is such a call and returned a match / returned null
Matched == Scored /\ returned' # <<>>

NotMatched == Scored /\ returned' = <<>>

\* the position the recovery step goes back to
RecoveryPosition(s) ==
    IF s.lastSuccessfulMatch # <<>> THEN s.lastSuccessfulMatch[1].startAyah ELSE 1

\* ------------------------------------------------------------------------
\* Properties
\* ------------------------------------------------------------------------

\* C1: when processAudioChunk on an active session returns a match M, then
\* afterwards lastSuccessfulMatch is M, sessionHistory is the old history
\* with M appended, currentPosition is M.endAyah + 1, consecutiveFailures is
\* 0 and slidingWindows is the window list for the new position.
C1_MatchUpdatesSession ==
    [][Matched =>
          /\ session' # <<>>
          /\ Sp.lastSuccessfulMatch = returned'
          /\ Sp.sessionHistory = Append(S.sessionHistory, returned'[1])
          /\ Len(Sp.sessionHistory) = Len(S.sessionHistory) + 1
          /\ Sp.currentPosition = returned'[1].endAyah + 1
          /\ Sp.consecutiveFailures = 0
          /\ Sp.slidingWindows = FreshWindows(Sp)]_vars

\* a second match, of more than one verse, was appended to the history and
\* moved the cursor, and the window list was rebuilt for it
C1_Witness ==
    /\ op = "processAudioChunk"
    /\ returned # <<>>
    /\ session # <<>>
    /\ Len(S.sessionHistory) = 2
    /\ S.sessionHistory[2] = returned[1]
    /\ returned[1].endAyah > returned[1].startAyah
    /\ S.currentPosition = returned[1].endAyah + 1

\* C2: a processAudioChunk call that scores the windows and returns null
\* raises consecutiveFailures by exactly 1, also when the recovery step runs
\* in that call; one that returns a match leaves it 0.
C2_FailureCount ==
    [][Scored =>
          IF returned' = <<>>
          THEN Sp.consecutiveFailures = S.consecutiveFailures + 1
          ELSE Sp.consecutiveFailures = 0]_vars

\* a fourth failure in a row: the recovery step ran and the count went up
C2_Witness ==
    /\ op = "processAudioChunk"
    /\ returned = <<>>
    /\ recovered
    /\ session # <<>>
    /\ S.consecutiveFailures = 4

\* C3: the recovery step runs exactly when consecutiveFailures reaches 3: a
\* no-match call that starts below 2 failures runs no recovery and leaves
\* confidenceThreshold, windowSize, currentPosition and slidingWindows as
\* they were; the no-match call that starts at 2 failures runs it.
C3_RecoveryAtThree ==
    [][NotMatched =>
          /\ S.consecutiveFailures < 2 =>
                 /\ ~recovered'
                 /\ Sp.confidenceThreshold = S.confidenceThreshold
                 /\ Sp.windowSize = S.windowSize
                 /\ Sp.currentPosition = S.currentPosition
                 /\ Sp.slidingWindows = S.slidingWindows
          /\ S.consecutiveFailures = 2 =>
                 /\ recovered'
                 /\ Sp.consecutiveFailures = 3
                 /\ Sp.confidenceThreshold = Max(5, S.confidenceThreshold - 1)
                 /\ Sp.windowSize = Min(5, S.windowSize + 1)
                 /\ Sp.currentPosition = RecoveryPosition(S)]_vars

\* the third failure in a row on a session at the defaults: recovery ran
C3_Witness ==
    /\ op = "processAudioChunk"
    /\ returned = <<>>
    /\ recovered
    /\ session # <<>>
    /\ S.consecutiveFailures = 3
    /\ S.confidenceThreshold = 6
    /\ S.windowSize = 4

\* C4: a recovery step leaves confidenceThreshold at max(0.5, old - 0.1)
\* and windowSize at min(5, old + 1); from the defaults 0.7 and 3 that is
\* 0.6 and 4.
C4_RecoveryNotch ==
    [][(NotMatched /\ recovered') =>
          /\ Sp.confidenceThreshold = Max(5, S.confidenceThreshold - 1)
          /\ Sp.windowSize = Min(5, S.windowSize + 1)
          /\ (S.confidenceThreshold = 7 /\ S.windowSize = 3) =>
                 (Sp.confidenceThreshold = 6 /\ Sp.windowSize = 4)]_vars

\* three failures in a row on a new session of window size 3: 0.6 and 4
C4_Witness ==
    /\ op = "processAudioChunk"
    /\ recovered
    /\ session # <<>>
    /\ S.consecutiveFailures = 3
    /\ S.sessionHistory = <<>>
    /\ S.confidenceThreshold = 6
    /\ S.windowSize = 4

\* C5: a recovery step sets currentPosition to the first verse of the last
\* successful match when there is one and to verse 1 otherwise, and leaves
\* slidingWindows the window list for the new position and window size.
C5_RecoveryPosition ==
    [][(NotMatched /\ recovered') =>
          /\ Sp.currentPosition =
                 IF S.lastSuccessfulMatch # <<>>
                 THEN S.lastSuccessfulMatch[1].startAyah
                 ELSE 1
          /\ Sp.lastSuccessfulMatch = S.lastSuccessfulMatch
          /\ Sp.slidingWindows = FreshWindows(Sp)]_vars

\* recovery went back to verse 8, where the last match began
C5_Witness ==
    /\ op = "processAudioChunk"
    /\ recovered
    /\ session # <<>>
    /\ S.lastSuccessfulMatch # <<>>
    /\ S.lastSuccessfulMatch[1].startAyah = 8
    /\ S.currentPosition = 8

\* C6: the confidence threshold of a session is always between 0.5 and 0.7.
C6_ThresholdRange ==
    session # <<>> => (5 <= S.confidenceThreshold /\ S.confidenceThreshold <= 7)

\* a third recovery in a row: the threshold was 0.5 and stayed there
C6_Witness ==
    /\ op = "processAudioChunk"
    /\ recovered
    /\ session # <<>>
    /\ S.consecutiveFailures = 5
    /\ S.confidenceThreshold = 5

\* C7: jumpToPosition(n) on a session sets currentPosition to n,
\* consecutiveFailures to 0 and confidenceThreshold to 0.7, leaves
\* slidingWindows the window list for n, and leaves windowSize,
\* sessionHistory and lastSuccessfulMatch as they were.
C7_Jump ==
    [][(op' = "jumpToPosition" /\ session # <<>>) =>
          /\ session' # <<>>
          /\ Sp.currentPosition = arg'[1]
          /\ Sp.consecutiveFailures = 0
          /\ Sp.confidenceThreshold = 7
          /\ Sp.slidingWindows = FreshWindows(Sp)
          /\ Sp.windowSize = S.windowSize
          /\ Sp.sessionHistory = S.sessionHistory
          /\ Sp.lastSuccessfulMatch = S.lastSuccessfulMatch]_vars

\* a jump to verse 8 in a session that had matched and had recovered twice
C7_Witness ==
    /\ op = "jumpToPosition"
    /\ session # <<>>
    /\ S.currentPosition = 8
    /\ S.windowSize = 5
    /\ S.sessionHistory # <<>>
    /\ S.confidenceThreshold = 7

\* C8: resetSession on a session sets consecutiveFailures to 0,
\* confidenceThreshold to 0.7 and windowSize to 3, and leaves
\* currentPosition, sessionHistory and lastSuccessfulMatch as they were.
C8_Reset ==
    [][(op' = "resetSession" /\ session # <<>>) =>
          /\ session' # <<>>
          /\ Sp.consecutiveFailures = 0
          /\ Sp.confidenceThreshold = 7
          /\ Sp.windowSize = 3
          /\ Sp.currentPosition = S.currentPosition
          /\ Sp.sessionHistory = S.sessionHistory
          /\ Sp.lastSuccessfulMatch = S.lastSuccessfulMatch]_vars

\* a reset of a session that had matched and whose window size was 5 (its
\* windows still span five verses), away from verse 1
C8_Witness ==
    /\ op = "resetSession"
    /\ session # <<>>
    /\ S.windowSize = 3
    /\ S.sessionHistory # <<>>
    /\ S.currentPosition > 1
    /\ \E i \in 1..Len(S.slidingWindows) :
           S.slidingWindows[i].endAyah - S.slidingWindows[i].startAyah = 4

\* C9: processAudioChunk without a session, on an inactive session or with
\* a transcription that has no words returns null, does not throw, and
\* leaves every field of the session as it was.
C9_SoftNoOp ==
    [][(/\ op' = "processAudioChunk"
        /\ \/ session = <<>>
           \/ ~S.isActive
           \/ NoWords(Transcriptions[arg'[1]])) =>
          /\ session' = session
          /\ returned' = <<>>
          /\ ~threw'
          /\ ~recovered']_vars

\* a transcription without words arrived after two failures in a row, and
\* the session still counts two
C9_Witness ==
    /\ op = "processAudioChunk"
    /\ NoWords(Transcriptions[arg[1]])
    /\ returned = <<>>
    /\ session # <<>>
    /\ S.consecutiveFailures = 2
    /\ S.confidenceThreshold = 7

\* C10: initializeSession with a sura index that no sura of the corpus has
\* throws and leaves this.session as it was, null or not; with an index the
\* corpus has it does not throw.
C10_UnknownSura ==
    [][op' = "initializeSession" =>
          IF arg'[1] \in {Quran[k].index : k \in 1..Len(Quran)}
          THEN ~threw'
          ELSE threw' /\ session' = session]_vars

\* a failed initializeSession left a session with a match in its history
C10_Witness ==
    /\ op = "initializeSession"
    /\ threw
    /\ session # <<>>
    /\ S.sessionHistory # <<>>

\* C11: after an initializeSession call that did not throw, whatever the
\* session was before, the session has the sura, position and window size
\* of the call, confidenceThreshold 0.7, consecutiveFailures 0, an empty
\* history, no lastSuccessfulMatch, isActive true, and the window list of
\* that position.
C11_InitializeDefaults ==
    (op = "initializeSession" /\ ~threw) =>
        /\ session # <<>>
        /\ S.suraIndex = arg[1]
        /\ S.currentPosition = arg[2]
        /\ S.windowSize = arg[3]
        /\ S.confidenceThreshold = 7
        /\ S.consecutiveFailures = 0
        /\ S.sessionHistory = <<>>
        /\ S.lastSuccessfulMatch = <<>>
        /\ S.isActive
        /\ S.slidingWindows = FreshWindows(S)
        /\ S.slidingWindows # <<>>

\* initializeSession(1, 2, 2) has run: position 2, windows of at most 2
\* verses starting at verses 1 to 7 (14 of them)
C11_Witness ==
    /\ op = "initializeSession"
    /\ ~threw
    /\ arg = <<1, 2, 2>>
    /\ session # <<>>
    /\ S.currentPosition = 2
    /\ S.windowSize = 2
    /\ Len(S.slidingWindows) = 14

\* the start verses and lengths <<s, k>> the window builder is to produce for
\* a sura of L verses
ExpectedSpans(L, currentPosition, windowSize) ==
    LET R == Max(5, 2 * windowSize)
    IN  {<<s, k>> \in (Max(1, currentPosition - R)..Min(L, currentPosition + R))
                        \X (1..windowSize) : s + k - 1 <= L}

\* window i of a list comes before window j: by start verse, then by length
SpanBefore(windows, i, j) ==
    \/ windows[i].startAyah < windows[j].startAyah
    \/ /\ windows[i].startAyah = windows[j].startAyah
       /\ windows[i].endAyah < windows[j].endAyah

\* C12: for the position and window size of any session, buildSlidingWindows
\* yields exactly the spans [s, s+k-1] with s within R = max(5, 2*windowSize)
\* verses of currentPosition, clipped to 1..L, and k in 1..windowSize with
\* s+k-1 <= L: each once, no other, ordered by s and then k; so every window
\* lies within 1..L and spans at most windowSize verses.
C12_WindowSpans ==
    session # <<>> =>
        LET windows  == FreshWindows(S)
            L        == Len(FindSura(S.suraIndex)[1].ayas)
            expected == ExpectedSpans(L, S.currentPosition, S.windowSize)
        IN  /\ Len(windows) = Cardinality(expected)
            /\ \A i \in 1..Len(windows) :
                   /\ <<windows[i].startAyah,
                        windows[i].endAyah - windows[i].startAyah + 1>> \in expected
                   /\ 1 <= windows[i].startAyah
                   /\ windows[i].startAyah <= windows[i].endAyah
                   /\ windows[i].endAyah <= L
                   /\ windows[i].endAyah - windows[i].startAyah + 1 <= S.windowSize
            /\ \A i \in 1..(Len(windows) - 1) : SpanBefore(windows, i, i + 1)

\* the windows built at verse 8 of an 8-verse sura with window size 3: start
\* verses 2 to 8, 18 windows, the last a single verse
C12_Witness ==
    /\ session # <<>>
    /\ S.suraIndex = 1
    /\ S.currentPosition = 8
    /\ S.windowSize = 3
    /\ Len(FreshWindows(S)) = 18
    /\ FreshWindows(S)[1].startAyah = 2
    /\ FreshWindows(S)[18].startAyah = 8
    /\ S.slidingWindows = FreshWindows(S)

\* the score of window i of the session for the words of transcription id
ScoreOf(s, id, i) == ScoreTable[TranscriptionWords[id], s.slidingWindows[i].words]

\* the windows of the session whose confidence reaches its threshold
Accepted(s, id) ==
    {i \in 1..Len(s.slidingWindows) :
        FracGeq(ScoreOf(s, id, i).confidence, Frac(s.confidenceThreshold, 10))}

\* 0.4 * confidence + 0.4 * accuracy + 0.2 * alignmentScore of a score
Ranking(score) ==
    FracAdd(FracAdd(FracScale(4, 10, score.confidence), FracScale(4, 10, score.accuracy)),
            FracScale(2, 10, score.alignmentScore))

\* C13: a processAudioChunk call that scores the windows returns a match
\* exactly when some window of the session has confidence >= the session's
\* threshold; the match is then such a window, its ranking score
\* 0.4*confidence + 0.4*accuracy + 0.2*alignmentScore is the highest among
\* such windows, and no window of the same ranking score comes earlier in
\* the window list.
C13_Selection ==
    [][Scored =>
          LET id == arg'[1]
          IN  /\ (returned' # <<>>) <=> (Accepted(S, id) # {})
              /\ returned' # <<>> =>
                     LET M == returned'[1]
                         i == M.windowIndex + 1
                     IN  /\ i \in Accepted(S, id)
                         /\ M.startAyah = S.slidingWindows[i].startAyah
                         /\ M.endAyah = S.slidingWindows[i].endAyah
                         /\ M.confidence = ScoreOf(S, id, i).confidence
                         /\ M.accuracy = ScoreOf(S, id, i).accuracy
                         /\ \A j \in Accepted(S, id) :
                                /\ FracGeq(Ranking(ScoreOf(S, id, i)),
                                           Ranking(ScoreOf(S, id, j)))
                                /\ Ranking(ScoreOf(S, id, j)) = Ranking(ScoreOf(S, id, i))
                                       => i <= j]_vars

\* verses 1 and 2 recited at threshold 0.6: the window of verse 1 alone
\* comes first and is accepted (confidence 2/3), and the match is the second
\* window, verses 1 to 2, of the higher ranking score
C13_Witness ==
    /\ op = "processAudioChunk"
    /\ arg = <<2>>
    /\ returned # <<>>
    /\ returned[1].windowIndex = 1
    /\ returned[1].startAyah = 1
    /\ returned[1].endAyah = 2
    /\ returned[1].confidence = One
    /\ S.confidenceThreshold = 6

\* C14: when the transcribed word list is not empty and equals the word list
\* of the window, scoreWindow yields accuracy (the sequence match) 1 and
\* confidence 1, counts every word as matched, and the window is pushed onto
\* windowScores at every threshold from 0.5 to 0.7.
C14_ExactWindow ==
    (op = "scoreWindow" /\ arg[1] = arg[2]) =>
        /\ calculateSequenceMatch(arg[1], arg[2]) = One
        /\ returned[1].score.accuracy = One
        /\ returned[1].score.confidence = One
        /\ returned[1].score.matchedWords = Len(arg[1])
        /\ returned[1].score.totalWords = Len(arg[1])
        /\ \A t \in 5..7 : returned[1].pushed[t]

\* a list that holds the same word twice was scored against itself
C14_Witness ==
    /\ op = "scoreWindow"
    /\ arg[1] = arg[2]
    /\ Len(arg[1]) = 2
    /\ arg[1][1] = arg[1][2]
    /\ returned[1].score.confidence = One

\* the text of transcription id is, after normalization, the joined text of
\* verses c..c+k-1 of the session's sura
RecitesVerses(s, id, k) ==
    LET ayas == FindSura(s.suraIndex)[1].ayas
        c    == s.currentPosition
    IN  /\ 1 <= c
        /\ c + k - 1 <= Len(ayas)
        /\ normalizeArabicText(Transcriptions[id]) =
               normalizeArabicText(CombinedText(SubSeq(ayas, c, c + k - 1)))

\* C15: when the cursor is at verse c and the transcription is the text of
\* verses c..c+k-1, with 1 <= k <= windowSize and c+k-1 <= L,
\* processAudioChunk returns a match with startAyah = c, endAyah = c+k-1 and
\* accuracy 1, and afterwards currentPosition = c+k.
C15_ExactRecitation ==
    [][Scored =>
          \A k \in 1..S.windowSize :
              RecitesVerses(S, arg'[1], k) =>
                  /\ returned' # <<>>
                  /\ returned'[1].startAyah = S.currentPosition
                  /\ returned'[1].endAyah = S.currentPosition + k - 1
                  /\ returned'[1].accuracy = One
                  /\ Sp.currentPosition = S.currentPosition + k]_vars

\* C16: normalizeArabicText is idempotent: a text it returned, for any text
\* of diacritics, letters and their variants, whitespace and Latin letters,
\* it returns unchanged.
C16_NormalizeIdempotent ==
    op = "normalizeArabicText" =>
        normalizeArabicText(returned[1]) = returned[1]

\* a text that normalization changes in every step was normalized: a
\* diacritic removed, a letter folded, whitespace trimmed, a capital lowered
C16_Witness ==
    /\ op = "normalizeArabicText"
    /\ arg = << <<"tab", "ya", "fatha">> >>
    /\ returned = << <<"alif_maqsura">> >>

\* C19: the session history only grows by appending: a successful
\* initializeSession starts it empty, a processAudioChunk call that returns a
\* match appends that match and changes no earlier entry, and every other
\* step (a call without a match, with or without recovery, jumpToPosition,
\* resetSession, getSessionStats, an initializeSession that throws) leaves it
\* as it is; the totalMatches getSessionStats reports is its length, the
\* number of matches since the session was initialized.
C19_HistoryAppendOnly ==
    [][/\ (op' = "initializeSession" /\ ~threw') => Sp.sessionHistory = <<>>
       /\ (session # <<>> /\ ~(op' = "initializeSession" /\ ~threw')) =>
              /\ session' # <<>>
              /\ Sp.sessionHistory =
                     IF Matched THEN Append(S.sessionHistory, returned'[1])
                     ELSE S.sessionHistory
       /\ (op' = "getSessionStats" /\ session # <<>>) =>
              /\ returned' # <<>>
              /\ returned'[1].totalMatches = Len(S.sessionHistory)]_vars

\* getSessionStats reports the two matches of a session that matched twice,
\* the second time further on in the sura
C19_Witness ==
    /\ op = "getSessionStats"
    /\ returned # <<>>
    /\ returned[1].totalMatches = 2
    /\ Len(S.sessionHistory) = 2
    /\ S.sessionHistory[1].endAyah < S.sessionHistory[2].startAyah
    /\ S.windowSize = DefaultWindowSize
    /\ S.currentPosition = 8

\* C20: the windows are always fresh: in every state with a session,
\* slidingWindows is the list buildSlidingWindows yields for the session's
\* currentPosition and windowSize, and no window spans more than windowSize
\* verses.
C20_WindowsFresh ==
    session # <<>> =>
        /\ S.slidingWindows = FreshWindows(S)
        /\ \A i \in 1..Len(S.slidingWindows) :
               S.slidingWindows[i].endAyah - S.slidingWindows[i].startAyah + 1
                   <= S.windowSize

\* C17: scoring passes do not overlap and follow the order of arrival: at
\* most one chunk is out for transcription at a time; when a transcription
\* is handed to the engine, every call of handleTranscription before it has
\* run to its end, the whole session update of processAudioChunk is made in
\* that step, and its chunk was enqueued after the chunk of every
\* transcription handed over before.
C17_ScoringInOrder ==
    [][/\ Len(transcribing') <= 1
       /\ handled' # handled =>
              /\ microtasks = <<>>
              /\ Len(transcribing) = 1
              /\ handled' = Append(handled,
                                [chunk         |-> transcribing[1],
                                 transcription |-> arg'[1],
                                 match         |-> returned'])
              /\ op' = "processAudioChunk"
              /\ \A i \in 1..Len(handled) : handled[i].chunk < transcribing[1]
              /\ session' # session =>
                     Sp = IF returned' # <<>>
                          THEN RecordMatch(S, returned'[1])
                          ELSE RecordFailure(S).session]_vars

\* the first two of three chunks were scored in their order, the first
\* without a match and the second with one, and the third is out for
\* transcription
C17_Witness ==
    /\ Len(handled) = 2
    /\ handled[1].chunk = 1
    /\ handled[1].match = <<>>
    /\ handled[2].chunk = 2
    /\ handled[2].match # <<>>
    /\ transcribing = <<3>>
    /\ session # <<>>
    /\ S.currentPosition = 2
    /\ S.consecutiveFailures = 0

\* the event handleTranscription has for the engine's answer
Outcome(call) ==
    IF call.match # <<>>
    THEN [event |-> "onMatchFound", transcription |-> call.transcription,
          match |-> call.match]
    ELSE [event |-> "onNoMatch", transcription |-> call.transcription,
          match |-> <<>>]

\* the handleTranscription calls that ran to their end
Completed == SubSeq(handled, 1, Len(handled) - Len(microtasks))

\* C18 as stated: for every transcription handed to the session manager
\* exactly one outcome event is delivered to the caller, onMatchFound with
\* the match when the engine returned one and onNoMatch with the
\* transcription otherwise, never both and never neither, in the order the
\* transcriptions were processed: the events delivered are, one for one and
\* in order, the outcomes of the calls that ran to their end.
C18_OneOutcomeEvent ==
    /\ Len(emitted) = Len(Completed)
    /\ \A i \in 1..Len(emitted) :
           emitted[i] = Outcome([transcription |-> Completed[i].transcription,
                                 match         |-> Completed[i].match])

\* C18 amended: a handleTranscription call runs to its end before the next
\* one begins, in the order of the calls, and at its end it delivers the one
\* event of its outcome when the caller registered the handler of that
\* event, and no event when the caller did not; no other step delivers an
\* outcome event, and onError is never among them.
C18_OneOutcomeEventIfRegistered ==
    [][/\ Len(microtasks') <= 1
       /\ IF Len(microtasks') < Len(microtasks)
          THEN LET call == handled[Len(Completed) + 1]
                   outcome == Outcome([transcription |-> call.transcription,
                                       match         |-> call.match])
               IN  emitted' = IF outcome.event \in events
                              THEN Append(emitted, outcome)
                              ELSE emitted
          ELSE emitted' = emitted]_vars

\* three transcriptions were handled: the first for a caller without
\* handlers, the next two for a caller with handlers, who got onNoMatch and
\* then onMatchFound
C18_Witness ==
    /\ Len(handled) = 3
    /\ microtasks = <<>>
    /\ events = SessionEvents
    /\ Len(emitted) = 2
    /\ emitted[1] = Outcome([transcription |-> handled[2].transcription,
                             match         |-> handled[2].match])
    /\ emitted[1].event = "onNoMatch"
    /\ emitted[2] = Outcome([transcription |-> handled[3].transcription,
                             match         |-> handled[3].match])
    /\ emitted[2].event = "onMatchFound"

\* C21: stopping a session ends it for the engine: from the return of
\* stopSession to the next startSession no step changes currentPosition,
\* sessionHistory, consecutiveFailures or confidenceThreshold of the
\* engine's session, and no step delivers onMatchFound or onNoMatch; this
\* holds for a transcription that was out when stopSession was called and
\* comes back afterwards.
C21_StopEndsSession ==
    [][(session # <<>> /\ ~state.isActive /\ ~state'.isActive) =>
           /\ session' # <<>>
           /\ Sp.currentPosition = S.currentPosition
           /\ Sp.sessionHistory = S.sessionHistory
           /\ Sp.consecutiveFailures = S.consecutiveFailures
           /\ Sp.confidenceThreshold = S.confidenceThreshold
           /\ emitted' = emitted]_vars

\* C22: when a match moves currentPosition past the last verse of the sura,
\* the caller is told so: the handleTranscription call of a match whose
\* endAyah is the last verse delivers onSessionComplete besides
\* onMatchFound, to a caller who registered both.
C22_CompletionSignalled ==
    [][(/\ Len(microtasks') < Len(microtasks)
        /\ Head(microtasks).match # <<>>
        /\ Head(microtasks).match[1].endAyah = Len(FindSura(S.suraIndex)[1].ayas)
        /\ {"onMatchFound", "onSessionComplete"} \subseteq events) =>
           /\ Len(emitted') = Len(emitted) + 2
           /\ emitted'[Len(emitted) + 1].event = "onMatchFound"
           /\ emitted'[Len(emitted) + 2].event = "onSessionComplete"]_vars

\* the classic recurrence of the edit distance with unit costs: one row of
\* d from the row before, the minimum of a deletion, an insertion and a
\* substitution (or a kept character) in every cell
RECURSIVE EditRowFrom(_, _, _, _)
EditRowFrom(prev, ch, a, row) ==
    LET j == Len(row)
    IN  IF j > Len(a) THEN row
        ELSE EditRowFrom(prev, ch, a,
                 Append(row, Min(prev[j + 1] + 1,
                             Min(row[j] + 1,
                                 prev[j] + (IF ch = a[j] THEN 0 ELSE 1)))))

RECURSIVE EditRows(_, _, _)
EditRows(a, b, last) ==
    IF b = <<>> THEN last
    ELSE EditRows(a, Tail(b), EditRowFrom(last, Head(b), a, <<last[1] + 1>>))

EditDistance(a, b) == EditRows(a, b, [j \in 1..(Len(a) + 1) |-> j - 1])[Len(a) + 1]

\* 1 - EditDistance(a, b) / max(len(a), len(b)) >= 0.85, for words not both
\* empty
SimilarEnough(a, b) ==
    LET longest == Max(Len(a), Len(b))
    IN  100 * (longest - EditDistance(a, b)) >= 85 * longest

\* C23: arabicWordMatch(a, b) is true exactly when a and b are not empty and
\* either their normalized forms are equal, or both normalized forms are
\* longer than 2 characters and 1 - distance / max(lengths) >= 0.85 for the
\* classic edit distance, which is what levenshteinDistance computes; the
\* answer is the same for (b, a), and a word that is not empty matches
\* itself.
C23_WordsMatch ==
    op = "arabicWordMatch" =>
        LET a == normalizeArabicText(arg[1])
            b == normalizeArabicText(arg[2])
        IN  /\ returned[1].distance = EditDistance(a, b)
            /\ returned[1].match <=>
                   /\ arg[1] # <<>>
                   /\ arg[2] # <<>>
                   /\ \/ a = b
                      \/ Len(a) > 2 /\ Len(b) > 2 /\ SimilarEnough(a, b)
            /\ returned[1].reverse = returned[1].match
            /\ arg[1] # <<>> => returned[1].self

\* two words of seven letters that differ in one letter match
C23_Witness ==
    /\ op = "arabicWordMatch"
    /\ arg = << <<"b", "m", "b", "m", "b", "m", "b">>,
                <<"b", "m", "b", "b", "b", "m", "b">> >>
    /\ returned[1].match
    /\ returned[1].distance = 1

\* C24 as stated: two normalized words that are both longer than 2
\* characters and differ by one insertion, deletion or substitution match.
C24_OneEditTolerated ==
    op = "arabicWordMatch" =>
        LET a == normalizeArabicText(arg[1])
            b == normalizeArabicText(arg[2])
        IN  (Len(a) > 2 /\ Len(b) > 2 /\ EditDistance(a, b) = 1) =>
                returned[1].match

\* C24 amended: two normalized words that are both longer than 2 characters
\* and differ by one insertion, deletion or substitution match exactly when
\* the longer of them has 7 characters or more (1 - 1/7 >= 0.85 > 1 - 1/6).
C24_OneEditToleratedFromSeven ==
    op = "arabicWordMatch" =>
        LET a == normalizeArabicText(arg[1])
            b == normalizeArabicText(arg[2])
        IN  (Len(a) > 2 /\ Len(b) > 2 /\ EditDistance(a, b) = 1) =>
                (returned[1].match <=> Max(Len(a), Len(b)) >= 7)

\* a word of seven letters and the word of six letters it becomes when one
\* letter is left out match
C24_Witness ==
    /\ op = "arabicWordMatch"
    /\ arg = << <<"b", "b", "m", "m", "b", "m", "m">>,
                <<"b", "b", "m", "b", "m", "m">> >>
    /\ returned[1].distance = 1
    /\ returned[1].match
    /\ returned[1].reverse

\* which of the words match
LcsWordsMatch == [p \in LcsWords \X LcsWords |-> arabicWordMatch(p[1], p[2])]

\* the largest number of pairs (i, j) of matching words transcribed[i],
\* window[j] that can be chosen with both positions increasing, by trying
\* every choice for the first words
RECURSIVE MaxPairing(_, _)
MaxPairing(transcribed, window) ==
    IF transcribed = <<>> \/ window = <<>> THEN 0
    ELSE Max(Max(MaxPairing(Tail(transcribed), window),
                 MaxPairing(transcribed, Tail(window))),
             IF LcsWordsMatch[<<Head(transcribed), Head(window)>>]
             THEN 1 + MaxPairing(Tail(transcribed), Tail(window))
             ELSE 0)

\* sub can be had from list by leaving words out
RECURSIVE IsSubsequence(_, _)
IsSubsequence(sub, list) ==
    IF sub = <<>> THEN TRUE
    ELSE IF list = <<>> THEN FALSE
    ELSE IF Head(sub) = Head(list) THEN IsSubsequence(Tail(sub), Tail(list))
    ELSE IsSubsequence(sub, Tail(list))

\* C25: longestCommonSubsequence returns a subsequence of the transcribed
\* words whose length is the largest number of matching pairs in increasing
\* positions, also for words whose matching is not transitive; the list has
\* the length in the last cell of dp; sequenceMatch is that length divided
\* by the length of the longer list, and 0 when a list is empty.
C25_LcsIsMaximal ==
    op = "calculateSequenceMatch" =>
        /\ IsSubsequence(returned[1].lcs, arg[1])
        /\ Len(returned[1].lcs) = MaxPairing(arg[1], arg[2])
        /\ Len(returned[1].lcs) = returned[1].cell
        /\ returned[1].sequenceMatch =
               IF arg[1] = <<>> \/ arg[2] = <<>> THEN Zero
               ELSE Frac(Len(returned[1].lcs), Max(Len(arg[1]), Len(arg[2])))

\* the two transcribed words do not match each other and both match the
\* word the window holds twice: two pairs are found
C25_Witness ==
    /\ op = "calculateSequenceMatch"
    /\ arg = << << <<"alif", "l", "r", "hah", "m", "alif", "n">>,
                   <<"alif", "l", "r", "hah", "ya", "alif", "m">> >>,
                << <<"alif", "l", "r", "hah", "m", "alif", "m">>,
                   <<"alif", "l", "r", "hah", "m", "alif", "m">> >> >>
    /\ returned[1].lcs = arg[1]
    /\ returned[1].cell = 2
    /\ returned[1].sequenceMatch = One

\* C26: the recovery step does not clear consecutiveFailures, so every
\* no-match call that starts at 2 failures or more runs it again: the count
\* goes up by 1, the threshold goes down a notch until 0.5, windowSize goes
\* up a notch until 5 and currentPosition goes back to the recovery
\* position; only a match, jumpToPosition or resetSession brings the count
\* to 0. From the defaults the third failure leaves 0.6 and 4, the fourth
\* 0.5 and 5, and later failures leave 0.5 and 5.
C26_RecoveryRepeats ==
    [][
        /\ (NotMatched /\ S.consecutiveFailures >= 2) =>
              /\ recovered'
              /\ Sp.consecutiveFailures = S.consecutiveFailures + 1
              /\ Sp.confidenceThreshold = Max(5, S.confidenceThreshold - 1)
              /\ Sp.windowSize = Min(5, S.windowSize + 1)
              /\ Sp.currentPosition = RecoveryPosition(S)
              /\ Sp.slidingWindows = FreshWindows(Sp)
        /\ (NotMatched /\ S.consecutiveFailures = 2
               /\ S.confidenceThreshold = 7 /\ S.windowSize = 3) =>
              (Sp.confidenceThreshold = 6 /\ Sp.windowSize = 4)
        /\ (NotMatched /\ S.consecutiveFailures = 3
               /\ S.confidenceThreshold = 6 /\ S.windowSize = 4) =>
              (Sp.confidenceThreshold = 5 /\ Sp.windowSize = 5)
        /\ (NotMatched /\ S.consecutiveFailures >= 4
               /\ S.confidenceThreshold = 5 /\ S.windowSize = 5) =>
              (Sp.confidenceThreshold = 5 /\ Sp.windowSize = 5)
        /\ (session # <<>> /\ session' # <<>>
               /\ Sp.consecutiveFailures < S.consecutiveFailures) =>
              /\ Sp.consecutiveFailures = 0
              /\ \/ Matched
                 \/ op' \in {"jumpToPosition", "resetSession", "initializeSession"}
      ]_vars

\* the fifth failure in a row of a session begun at the defaults: recovery
\* ran for the third time, on a session already at 0.5 and 5, and went back
\* to verse 1
C26_Witness ==
    /\ op = "processAudioChunk"
    /\ returned = <<>>
    /\ recovered
    /\ session # <<>>
    /\ S.consecutiveFailures = 5
    /\ S.sessionHistory = <<>>
    /\ S.confidenceThreshold = 5
    /\ S.windowSize = 5
    /\ S.currentPosition = 1


\* a score between 0 and 1, both included
InUnitRange(x) == FracGeq(x, Zero) /\ FracGeq(One, x)

\* C27: for a transcribed word list that is not empty and any window, the
\* scores scoreWindow returns are in range: confidence, accuracy and
\* alignmentScore lie between 0 and 1, and matchedWords lies between 0 and
\* totalWords, which is the number of transcribed words.
C27_ScoresInRange ==
    op = "scoreWindow" =>
        /\ Len(arg[1]) > 0
        /\ InUnitRange(returned[1].score.confidence)
        /\ InUnitRange(returned[1].score.accuracy)
        /\ InUnitRange(returned[1].score.alignmentScore)
        /\ returned[1].score.totalWords = Len(arg[1])
        /\ 0 <= returned[1].score.matchedWords
        /\ returned[1].score.matchedWords <= returned[1].score.totalWords

\* two transcribed words were scored against a window of two other words,
\* the second of which is one letter away: one word of two is counted, the
\* confidence is strictly between 0 and 1 and the alignment score is 1/2
C27_Witness ==
    /\ op = "scoreWindow"
    /\ arg = << << <<"b", "s", "m">>,
                   <<"alif", "l", "r", "hah", "m", "alif", "n">> >>,
                << <<"alif", "l", "l", "ha">>,
                   <<"alif", "l", "r", "hah", "m", "alif", "m">> >> >>
    /\ returned[1].score.accuracy = Frac(1, 2)
    /\ returned[1].score.matchedWords = 1
    /\ returned[1].score.totalWords = 2
    /\ returned[1].score.alignmentScore = Frac(1, 2)
    /\ FracGt(returned[1].score.confidence, Zero)
    /\ FracGt(One, returned[1].score.confidence)


\* the number of verses of the sura a session is on
SuraLength(s) == Len(FindSura(s.suraIndex)[1].ayas)

\* the cursor is on a verse of the sura or just past the last one, and
\* there is a window to score against
CursorInBounds(s) ==
    /\ 1 <= s.currentPosition
    /\ s.currentPosition <= SuraLength(s) + 1
    /\ s.slidingWindows # <<>>

C29_MatchKeepsAdaptation ==
    [][
        /\ Matched =>
              /\ Sp.confidenceThreshold = S.confidenceThreshold
              /\ Sp.windowSize = S.windowSize
              /\ Sp.suraIndex = S.suraIndex
              /\ Sp.isActive = S.isActive
              /\ Sp = [S EXCEPT !.lastSuccessfulMatch = Sp.lastSuccessfulMatch,
                                !.sessionHistory = Sp.sessionHistory,
                                !.currentPosition = Sp.currentPosition,
                                !.consecutiveFailures = Sp.consecutiveFailures,
                                !.slidingWindows = Sp.slidingWindows]
        /\ (session # <<>> /\ session' # <<>>
               /\ \/ Sp.confidenceThreshold > S.confidenceThreshold
                  \/ Sp.windowSize < S.windowSize) =>
              op' \in {"jumpToPosition", "resetSession", "initializeSession"}
      ]_vars

\* a match was returned by a session that recovery had brought to 0.6 and
\* window size 4: the second match of the session, scored after three
\* failures, and both values are still in force
C29_Witness ==
    /\ op = "processAudioChunk"
    /\ returned # <<>>
    /\ session # <<>>
    /\ Len(S.sessionHistory) = 2
    /\ S.lastSuccessfulMatch = returned
    /\ S.consecutiveFailures = 0
    /\ S.confidenceThreshold = 6
    /\ S.windowSize = 4


\* the chunks a sequence holds
ChunksOf(q) == {q[k] : k \in 1..Len(q)}

\* the step hands chunk c to transcribeChunk
Sent(c) == c \notin ChunksOf(transcribing) /\ c \in ChunksOf(transcribing')

\* the step is stopSession's clearQueue: the queue is emptied and no chunk
\* is sent
Cleared ==
    /\ processingQueue' = <<>>
    /\ transcribing' = transcribing
    /\ ~state'.isActive

\* C30, the loop: at most one processQueue loop is active, isProcessing
\* tells whether one is, chunks wait only while one is, and the chunks wait
\* in arrival order behind the one being transcribed
C30_OneDrainLoop ==
    /\ Len(transcribing) <= 1
    /\ isProcessing <=> (transcribing # <<>>)
    /\ processingQueue # <<>> => isProcessing
    /\ \A c \in ChunksOf(processingQueue) \cup ChunksOf(transcribing) : c <= chunks
    /\ \A j, k \in 1..Len(processingQueue) :
           j < k => processingQueue[j] < processingQueue[k]
    /\ \A c \in ChunksOf(transcribing), d \in ChunksOf(processingQueue) : c < d

\* C30, the steps: a chunk that is sent is the oldest one waiting (or the
\* one just arrived when none waits) and no longer waits; a chunk stops
\* waiting only by being sent or by clearQueue; a chunk arrives with a new
\* number; the next chunk is sent after a failed transcription as after a
\* good one; and when the loop ends the queue is empty, isProcessing is
\* false and onProcessingComplete has set the manager's isProcessing false
C30_QueueSteps ==
    [][
        /\ \A c \in 1..(chunks + 1) :
              Sent(c) =>
                  /\ c \notin ChunksOf(processingQueue')
                  /\ IF processingQueue # <<>>
                     THEN c = Head(processingQueue)
                     ELSE c = chunks' /\ chunks' = chunks + 1
        /\ \A c \in ChunksOf(processingQueue) :
              c \notin ChunksOf(processingQueue') => (Sent(c) \/ Cleared)
        /\ \A c \in ChunksOf(processingQueue') \ ChunksOf(processingQueue) :
              c = chunks + 1 /\ chunks' = chunks + 1
        /\ (transcribing # <<>> /\ transcribing' # transcribing
               /\ processingQueue # <<>>) =>
              Sent(Head(processingQueue))
        /\ (transcribing # <<>> /\ transcribing' = <<>>) =>
              /\ processingQueue = <<>>
              /\ processingQueue' = <<>>
              /\ ~isProcessing'
              /\ ~state'.isProcessing
      ]_vars

\* C30: for any interleaving of processChunk calls with the settling of the
\* transcription requests, at most one processQueue loop is active; every
\* chunk put on the queue and not removed by clearQueue is sent to
\* transcribeChunk, once and in arrival order, also after the transcription
\* of an earlier chunk failed; and when the queue is drained isProcessing
\* goes back to false and onProcessingComplete is called.
C30_QueueDrains ==
    /\ []C30_OneDrainLoop
    /\ C30_QueueSteps
    /\ \A c \in 1..MaxChunks :
           (c \in ChunksOf(processingQueue)) ~> (c \notin ChunksOf(processingQueue))
    /\ isProcessing ~> (~isProcessing /\ processingQueue = <<>>)

\* three chunks were delivered while the first was being transcribed; the
\* first and the second were sent and the third waits behind the second,
\* whose transcription is awaited after the first came back without a match
C30_Witness ==
    /\ chunks = 3
    /\ transcribing = <<2>>
    /\ processingQueue = <<3>>
    /\ isProcessing
    /\ Len(handled) = 1
    /\ handled[1].chunk = 1
    /\ handled[1].match = <<>>


====
